---- MODULE Spec2Model ----
(***************************************************************************)
(* IR tree engine of builder-ui (packages/runtime-engine/src/ir): the      *)
(* component schema registry, the validator and the tree utilities.        *)
(*                                                                         *)
(* IR components are JavaScript objects, so the model keeps a heap: a      *)
(* sequence of node records addressed by handle (index).  children and     *)
(* slot arrays hold handles, which makes sharing of one object between two *)
(* containers expressible, and a deep clone allocates fresh handles.       *)
(***************************************************************************)
EXTENDS Integers, Sequences, FiniteSets, TLC

\* ---------------------------------------------------------------- bounds
MaxNodes == 3
MaxStamp == 3
MaxPending == 1
MaxPatches == 1
MaxBuilderNodes == 5
MaxNotified == 5

\* ------------------------------------------------------------- constants
Null == 0          \* "no handle": null / undefined component reference
NoIndex == -9      \* the optional index argument left undefined
Unlimited == -1000 \* maxChildren: null

Absent == "<absent>"   \* key not present in props
NaNVal == "<NaN>"      \* a number JSON cannot carry
NullVal == "<null>"    \* JSON null

PropKeys == {"gap", "alignItems", "justifyContent"}

\* String.prototype.toLowerCase on the type names the model uses
Lower == [t \in {"Row", "Stack", "Button", "Leaf", "Box", "Bogus"} |->
            CASE t = "Row" -> "row" [] t = "Stack" -> "stack"
              [] t = "Button" -> "button" [] t = "Leaf" -> "leaf"
              [] t = "Box" -> "box" [] OTHER -> "bogus"]

NoProps == [k \in PropKeys |-> Absent]

NoId == [prefix |-> "", type |-> "", stamp |-> -1]
UnknownId == [prefix |-> "unknown", type |-> "", stamp |-> -1]

\* ------------------------------------------------------------- variables
VARIABLES
  heap,     \* Seq of IRComponent objects; a handle is an index
  root,     \* handle of the root component of the tree
  schema,   \* ComponentSchemaHelper.schema.componentTypes (set of definitions)
  validator,\* the IRValidator's private fields errors and warnings
  result,   \* what the last validate call returned (NoResult before any)
  reused,   \* some add call was handed a component a container already held
  notified  \* how often the VisualBuilder has invoked options.onIRChange

vars == <<heap, root, schema, validator, result, reused, notified>>

\* -------------------------------------------------------- sequence helpers
Range(s) == {s[i] : i \in 1..Len(s)}

InSeq(x, s) == \E i \in 1..Len(s) : s[i] = x

IndexOf(x, s) == IF InSeq(x, s) THEN CHOOSE i \in 1..Len(s) : s[i] = x /\ \A j \in 1..(i - 1) : s[j] # x
                 ELSE 0

\* a splice that is off by one
RemoveNext(s, i) == SubSeq(s, 1, i) \o SubSeq(s, i + 2, Len(s))

RemoveAt(s, i) == SubSeq(s, 1, i - 1) \o SubSeq(s, i + 1, Len(s))

InsertAt(s, i, x) == SubSeq(s, 1, i - 1) \o <<x>> \o SubSeq(s, i, Len(s))

RECURSIVE Flatten(_)
Flatten(ss) == IF ss = <<>> THEN <<>> ELSE Head(ss) \o Flatten(Tail(ss))

\* Object.values(slots) with the inner loop unrolled: every slot member, slot
\* by slot in property (insertion) order
SlotMembers(slots) == Flatten([i \in 1..Len(slots) |-> slots[i].members])

SlotNames(slots) == [i \in 1..Len(slots) |-> slots[i].name]

\* ---------------------------------------------------------- component-schema.ts
TypeDef(t, slots, max, can) ==
  [type |-> t, allowedSlots |-> slots, maxChildren |-> max, canHaveChildren |-> can,
   defaultProps |-> NoProps]

DEFAULT_COMPONENT_TYPES ==
  { [TypeDef("Row", <<"main">>, Unlimited, TRUE) EXCEPT
       !.defaultProps = [gap |-> "md", alignItems |-> "center", justifyContent |-> "start"]],
    [TypeDef("Stack", <<"main">>, Unlimited, TRUE) EXCEPT
       !.defaultProps = [gap |-> "md", alignItems |-> "start", justifyContent |-> "start"]],
    [TypeDef("Button", <<"main", "icon", "content">>, Unlimited, TRUE) EXCEPT
       !.defaultProps = [variant |-> "primary", size |-> "md", disabled |-> "false"]] }

\* componentTypes is a plain object: besides the registered types, the names
\* Object.prototype defines (constructor, toString, ...) are `in` it and index
\* it to a function, which has none of a definition's fields
ProtoKeys == {"constructor"}

ProtoDef == TypeDef("<inherited>", <<>>, Unlimited, FALSE)

NoDef == TypeDef("", <<>>, Unlimited, FALSE)

\* type in this.schema.componentTypes
hasComponentType(sc, t) == t \in ProtoKeys \/ \E d \in sc : d.type = t

\* this.schema.componentTypes[type] || null
getComponentType(sc, t) ==
  IF \E d \in sc : d.type = t THEN CHOOSE d \in sc : d.type = t
  ELSE IF t \in ProtoKeys THEN ProtoDef
  ELSE NoDef

canHaveChildren(sc, t) == hasComponentType(sc, t) /\ getComponentType(sc, t).canHaveChildren

getAllowedSlots(sc, t) == IF hasComponentType(sc, t) THEN getComponentType(sc, t).allowedSlots ELSE <<>>

\* a slot check that asks for the name itself to be listed
isSlotAllowedListed(sc, t, name) == InSeq(name, getAllowedSlots(sc, t))

isSlotAllowed(sc, t, name) ==
  InSeq(name, getAllowedSlots(sc, t)) \/ InSeq("main", getAllowedSlots(sc, t))

getMaxChildren(sc, t) == IF hasComponentType(sc, t) THEN getComponentType(sc, t).maxChildren ELSE Unlimited

canContain(sc, parentType, childType) ==
  LET parentDef == getComponentType(sc, parentType)
      childDef == getComponentType(sc, childType) IN
  IF parentDef = NoDef \/ childDef = NoDef THEN FALSE
  ELSE IF ~parentDef.canHaveChildren THEN FALSE
  ELSE IF parentDef.maxChildren # Unlimited /\ parentDef.maxChildren <= 0 THEN FALSE
  ELSE IF parentType = "Button" /\ (childType = "Row" \/ childType = "Stack") THEN FALSE
  ELSE TRUE

addComponentType(sc, def) == {d \in sc : d.type # def.type} \cup {def}

\* removeComponentType(type): [ok, sc]; delete leaves an inherited name in place
removeComponentType(sc, t) ==
  [ok |-> hasComponentType(sc, t), sc |-> {d \in sc : d.type # t}]

\* { ...componentType.defaultProps } or {}
getDefaultProps(sc, t) == getComponentType(sc, t).defaultProps

\* -------------------------------------------------------------- ir/utils.ts
\* generateComponentId: `${prefix}-${type.toLowerCase()}-${timestamp}-${random}`.
\* stamp stands for the pair (Date.now(), Math.random()) the environment supplies.
generateComponentId(type, stamp) ==
  [prefix |-> "component", type |-> Lower[type], stamp |-> stamp]

\* createIRComponent(type, props, {autoGenerateIds: auto}); the object it returns
createIRComponent(type, props, auto, stamp) ==
  LET id == IF auto THEN generateComponentId(type, stamp)
            ELSE [prefix |-> "", type |-> Lower[type], stamp |-> stamp]
      baseComponent == [id |-> id, type |-> type, props |-> props,
                        hasChildren |-> FALSE, children |-> <<>>,
                        hasSlots |-> FALSE, slots |-> <<>>]
  IN CASE type \in {"Row", "Stack"} -> [baseComponent EXCEPT !.hasChildren = TRUE]
       [] type = "Button" -> [baseComponent EXCEPT !.hasChildren = TRUE, !.hasSlots = TRUE]
       [] OTHER -> baseComponent

\* JSON.parse(JSON.stringify(props)): NaN is written as null
JsonProps(props) == [k \in DOMAIN props |-> IF props[k] = NaNVal THEN NullVal ELSE props[k]]

RECURSIVE cloneIRComponent(_, _), cloneList(_, _), cloneSlots(_, _)
\* the copies of a list of components, allocated after h; [h, out]
cloneList(h, list) ==
  IF list = <<>> THEN [h |-> h, out |-> <<>>]
  ELSE LET c == cloneIRComponent(h, Head(list))
           rest == cloneList(c.h, Tail(list))
       IN [h |-> rest.h, out |-> <<c.n>> \o rest.out]

cloneSlots(h, slots) ==
  IF slots = <<>> THEN [h |-> h, out |-> <<>>]
  ELSE LET c == cloneList(h, Head(slots).members)
           rest == cloneSlots(c.h, Tail(slots))
       IN [h |-> rest.h, out |-> <<[name |-> Head(slots).name, members |-> c.out]>> \o rest.out]

\* a copy that keeps the node's own fields and drops what it contains
cloneShallow(h, n) ==
  [h |-> Append(h, [h[n] EXCEPT !.props = JsonProps(@), !.children = <<>>, !.slots = <<>>]),
   n |-> Len(h) + 1]

\* a duplicate that hands back the object it was given
cloneAlias(h, n) == [h |-> h, n |-> n]

\* cloneIRComponent: a JSON round trip builds new objects for the whole subtree;
\* [h |-> heap with the copy allocated, n |-> handle of the copy]
cloneIRComponent(h, n) ==
  LET kids == cloneList(h, h[n].children)
      sl == cloneSlots(kids.h, h[n].slots)
      copy == [h[n] EXCEPT !.props = JsonProps(@), !.children = kids.out, !.slots = sl.out]
  IN [h |-> Append(sl.h, copy), n |-> Len(sl.h) + 1]

RECURSIVE findComponentById(_, _, _), findInList(_, _, _)
findInList(h, list, id) ==
  IF list = <<>> THEN Null
  ELSE LET found == findComponentById(h, Head(list), id)
       IN IF found # Null THEN found ELSE findInList(h, Tail(list), id)

\* a search that looks into the named slots before the children
findSlotsFirst(h, r, id) ==
  IF h[r].id = id THEN r
  ELSE LET inSlots == IF h[r].hasSlots THEN findInList(h, SlotMembers(h[r].slots), id) ELSE Null
       IN IF inSlots # Null THEN inSlots
          ELSE IF h[r].hasChildren THEN findInList(h, h[r].children, id) ELSE Null

findComponentById(h, r, id) ==
  IF h[r].id = id THEN r
  ELSE LET inChildren == IF h[r].hasChildren THEN findInList(h, h[r].children, id) ELSE Null
       IN IF inChildren # Null THEN inChildren
          ELSE IF h[r].hasSlots THEN findInList(h, SlotMembers(h[r].slots), id) ELSE Null

RECURSIVE findParentComponent(_, _, _), findParentInList(_, _, _, _)
findParentInList(h, r, list, targetId) ==
  IF list = <<>> THEN Null
  ELSE IF h[Head(list)].id = targetId THEN r
  ELSE LET found == findParentComponent(h, Head(list), targetId)
       IN IF found # Null THEN found ELSE findParentInList(h, r, Tail(list), targetId)

\* a parent search that does not look into the named slots
findParentChildrenOnly(h, r, targetId) ==
  IF h[r].hasChildren THEN findParentInList(h, r, h[r].children, targetId) ELSE Null

findParentComponent(h, r, targetId) ==
  LET inChildren == IF h[r].hasChildren THEN findParentInList(h, r, h[r].children, targetId) ELSE Null
  IN IF inChildren # Null THEN inChildren
     ELSE IF h[r].hasSlots THEN findParentInList(h, r, SlotMembers(h[r].slots), targetId) ELSE Null

RECURSIVE getAllComponentIds(_, _), idsOfList(_, _)
idsOfList(h, list) ==
  IF list = <<>> THEN <<>> ELSE getAllComponentIds(h, Head(list)) \o idsOfList(h, Tail(list))

getAllComponentIds(h, r) ==
  <<h[r].id>> \o (IF h[r].hasChildren THEN idsOfList(h, h[r].children) ELSE <<>>)
              \o (IF h[r].hasSlots THEN idsOfList(h, SlotMembers(h[r].slots)) ELSE <<>>)

RECURSIVE scanIds(_, _, _)
\* for (const id of ids) { if (seen.has(id)) duplicates.add(id); else seen.add(id) }
\* duplicates is a Set: it keeps insertion order and takes an id once
scanIds(ids, seen, duplicates) ==
  IF ids = <<>> THEN duplicates
  ELSE LET id == Head(ids) IN
       IF id \in seen
       THEN scanIds(Tail(ids), seen,
                    IF InSeq(id, duplicates) THEN duplicates ELSE Append(duplicates, id))
       ELSE scanIds(Tail(ids), seen \cup {id}, duplicates)

RECURSIVE scanIdsPush(_, _, _)
\* the same scan with duplicates kept in an array that is pushed to
scanIdsPush(ids, seen, duplicates) ==
  IF ids = <<>> THEN duplicates
  ELSE LET id == Head(ids) IN
       IF id \in seen
       THEN scanIdsPush(Tail(ids), seen, Append(duplicates, id))
       ELSE scanIdsPush(Tail(ids), seen \cup {id}, duplicates)

\* a check that records an id as seen before it asks whether it was seen
validateUniqueIdsSeenFirst(h, r) ==
  LET ids == getAllComponentIds(h, r)
      duplicates == scanIds(ids, Range(ids), <<>>)
  IN [isValid |-> Len(duplicates) = 0, duplicates |-> duplicates]

\* a check that collects the duplicates in an array instead of a Set
validateUniqueIdsPush(h, r) ==
  LET ids == getAllComponentIds(h, r)
      duplicates == scanIdsPush(ids, {}, <<>>)
  IN [isValid |-> Len(duplicates) = 0, duplicates |-> duplicates]

\* isValid: duplicates.size === 0, duplicates: Array.from(duplicates)
validateUniqueIds(h, r) ==
  LET ids == getAllComponentIds(h, r)
      duplicates == scanIds(ids, {}, <<>>)
  IN [isValid |-> Len(duplicates) = 0, duplicates |-> duplicates]

\* findIndex(c => c.id === targetId), 1-based, 0 when there is none
IndexOfId(h, list, targetId) ==
  IF \E i \in 1..Len(list) : h[list[i]].id = targetId
  THEN CHOOSE i \in 1..Len(list) : h[list[i]].id = targetId
                                   /\ \A j \in 1..(i - 1) : h[list[j]].id # targetId
  ELSE 0

addChildComponent(h, parent, child, index) ==
  LET kids == h[parent].children
      out == IF index # NoIndex /\ index >= 0 /\ index <= Len(kids)
             THEN InsertAt(kids, index + 1, child)
             ELSE Append(kids, child)
  IN [ok |-> TRUE, threw |-> FALSE,
      h |-> [h EXCEPT ![parent].hasChildren = TRUE, ![parent].children = out]]

\* addSlotComponent.  parent.slots is a plain object, so for a slot name that
\* Object.prototype defines parent.slots[slotName] is the inherited function:
\* no array is created and the call of push or splice on it throws a TypeError
\* (threw), after parent.slots was created
addSlotComponent(h, parent, slotName, child, index) ==
  LET slots0 == h[parent].slots
      slots1 == IF InSeq(slotName, SlotNames(slots0)) THEN slots0
                ELSE Append(slots0, [name |-> slotName, members |-> <<>>])
      k == IndexOf(slotName, SlotNames(slots1))
      slotArray == slots1[k].members
      out == IF index # NoIndex /\ index >= 0 /\ index <= Len(slotArray)
             THEN InsertAt(slotArray, index + 1, child)
             ELSE Append(slotArray, child)
  IN IF slotName \in ProtoKeys /\ ~InSeq(slotName, SlotNames(slots0))
     THEN [ok |-> FALSE, threw |-> TRUE, h |-> [h EXCEPT ![parent].hasSlots = TRUE]]
     ELSE [ok |-> TRUE, threw |-> FALSE,
           h |-> [h EXCEPT ![parent].hasSlots = TRUE,
                           ![parent].slots = [slots1 EXCEPT ![k].members = out]]]

RECURSIVE removeComponent(_, _, _), removeInList(_, _, _), removeInSlots(_, _, _, _)
\* for (const c of list) if (removeComponent(c, targetId)) return true
removeInList(h, list, targetId) ==
  IF list = <<>> THEN [ok |-> FALSE, h |-> h]
  ELSE LET r == removeComponent(h, Head(list), targetId)
       IN IF r.ok THEN r ELSE removeInList(h, Tail(list), targetId)

\* the same loop leaving an emptied slot array in place
removeInSlotsKeep(h, r, k, targetId) ==
  IF k > Len(h[r].slots) THEN [ok |-> FALSE, h |-> h]
  ELSE LET slot == h[r].slots[k]
           index == IndexOfId(h, slot.members, targetId)
       IN IF index # 0
          THEN [ok |-> TRUE, h |-> [h EXCEPT ![r].slots[k].members = RemoveAt(@, index)]]
          ELSE LET deeper == removeInList(h, slot.members, targetId)
               IN IF deeper.ok THEN deeper ELSE removeInSlots(h, r, k + 1, targetId)

\* the loop over Object.entries(root.slots), from entry k on
removeInSlots(h, r, k, targetId) ==
  IF k > Len(h[r].slots) THEN [ok |-> FALSE, h |-> h]
  ELSE LET slot == h[r].slots[k]
           index == IndexOfId(h, slot.members, targetId)
           spliced == RemoveAt(slot.members, index)
       IN IF index # 0
          THEN [ok |-> TRUE,
                h |-> IF spliced = <<>>
                      THEN [h EXCEPT ![r].slots = RemoveAt(@, k)]
                      ELSE [h EXCEPT ![r].slots[k].members = spliced]]
          ELSE LET deeper == removeInList(h, slot.members, targetId)
               IN IF deeper.ok THEN deeper ELSE removeInSlots(h, r, k + 1, targetId)

\* a removal that looks at the children and never at the named slots
removeChildrenOnly(h, r, targetId) ==
  LET index == IndexOfId(h, h[r].children, targetId) IN
  IF ~h[r].hasChildren THEN [ok |-> FALSE, h |-> h]
  ELSE IF index # 0 THEN [ok |-> TRUE, h |-> [h EXCEPT ![r].children = RemoveAt(@, index)]]
  ELSE removeInList(h, h[r].children, targetId)

\* a removal that reports success also when it found nothing to take out
removeReportsTrue(h, r, targetId) ==
  LET index == IndexOfId(h, h[r].children, targetId)
      viaChildren ==
        IF ~h[r].hasChildren THEN [ok |-> FALSE, h |-> h]
        ELSE IF index # 0 THEN [ok |-> TRUE, h |-> [h EXCEPT ![r].children = RemoveAt(@, index)]]
        ELSE removeInList(h, h[r].children, targetId)
  IN IF viaChildren.ok THEN viaChildren
     ELSE IF h[r].hasSlots THEN [removeInSlots(h, r, 1, targetId) EXCEPT !.ok = TRUE]
     ELSE [ok |-> TRUE, h |-> h]

removeComponent(h, r, targetId) ==
  LET index == IndexOfId(h, h[r].children, targetId)
      viaChildren ==
        IF ~h[r].hasChildren THEN [ok |-> FALSE, h |-> h]
        ELSE IF index # 0 THEN [ok |-> TRUE, h |-> [h EXCEPT ![r].children = RemoveAt(@, index)]]
        ELSE removeInList(h, h[r].children, targetId)
  IN IF viaChildren.ok THEN viaChildren
     ELSE IF h[r].hasSlots THEN removeInSlots(h, r, 1, targetId)
     ELSE [ok |-> FALSE, h |-> h]

\* position: [type, slotName, index]; NoPosition is the argument left out
NoPosition == [type |-> "", slotName |-> "", index |-> NoIndex]

\* a move that looks the destination up before it takes the original out
moveLookupFirst(h, r, componentId, newParentId, position) ==
  LET component == findComponentById(h, r, componentId) IN
  IF component = Null \/ findComponentById(h, r, newParentId) = Null
  THEN [ok |-> FALSE, h |-> h, cloned |-> Null]
  ELSE
    LET cl == cloneIRComponent(h, component)
        rm == removeComponent(cl.h, r, componentId)
        newParent == findComponentById(rm.h, r, newParentId)
    IN IF ~rm.ok \/ newParent = Null THEN [ok |-> FALSE, h |-> rm.h, cloned |-> cl.n]
       ELSE LET added == IF position.type = "slot" /\ position.slotName # ""
                         THEN addSlotComponent(rm.h, newParent, position.slotName, cl.n,
                                               position.index)
                         ELSE addChildComponent(rm.h, newParent, cl.n, position.index)
            IN [ok |-> added.ok, h |-> added.h, cloned |-> cl.n]

\* a move that takes the original out and attaches that same object again
moveReattach(h, r, componentId, newParentId, position) ==
  LET component == findComponentById(h, r, componentId) IN
  IF component = Null THEN [ok |-> FALSE, h |-> h, cloned |-> Null]
  ELSE
    LET rm == removeComponent(h, r, componentId)
        newParent == findComponentById(rm.h, r, newParentId)
    IN IF ~rm.ok \/ newParent = Null THEN [ok |-> FALSE, h |-> rm.h, cloned |-> component]
       ELSE LET added == IF position.type = "slot" /\ position.slotName # ""
                         THEN addSlotComponent(rm.h, newParent, position.slotName, component,
                                               position.index)
                         ELSE addChildComponent(rm.h, newParent, component, position.index)
            IN [ok |-> added.ok, h |-> added.h, cloned |-> component]

\* a move that goes on to attach the duplicate when the removal failed
moveIgnoresRemoval(h, r, componentId, newParentId, position) ==
  LET component == findComponentById(h, r, componentId) IN
  IF component = Null THEN [ok |-> FALSE, threw |-> FALSE, h |-> h, cloned |-> Null]
  ELSE
    LET cl == cloneIRComponent(h, component)
        rm == removeComponent(cl.h, r, componentId)
        newParent == findComponentById(rm.h, r, newParentId)
    IN IF newParent = Null THEN [ok |-> FALSE, threw |-> FALSE, h |-> rm.h, cloned |-> cl.n]
       ELSE
         LET added == IF position.type = "slot" /\ position.slotName # ""
                      THEN addSlotComponent(rm.h, newParent, position.slotName, cl.n, position.index)
                      ELSE addChildComponent(rm.h, newParent, cl.n, position.index)
         IN [ok |-> added.ok, threw |-> added.threw, h |-> added.h, cloned |-> cl.n]

\* a move that leaves the original in place when it finds no new parent
moveKeepsOnFailure(h, r, componentId, newParentId, position) ==
  LET component == findComponentById(h, r, componentId) IN
  IF component = Null THEN [ok |-> FALSE, threw |-> FALSE, h |-> h, cloned |-> Null]
  ELSE
    LET cl == cloneIRComponent(h, component)
        rm == removeComponent(cl.h, r, componentId)
    IN IF ~rm.ok THEN [ok |-> FALSE, threw |-> FALSE, h |-> rm.h, cloned |-> cl.n]
       ELSE
         LET newParent == findComponentById(rm.h, r, newParentId) IN
         IF newParent = Null THEN [ok |-> FALSE, threw |-> FALSE, h |-> cl.h, cloned |-> cl.n]
         ELSE
           LET added == IF position.type = "slot" /\ position.slotName # ""
                        THEN addSlotComponent(rm.h, newParent, position.slotName, cl.n, position.index)
                        ELSE addChildComponent(rm.h, newParent, cl.n, position.index)
           IN [ok |-> added.ok, threw |-> added.threw, h |-> added.h, cloned |-> cl.n]

\* moveComponent; cloned is the handle of the duplicate (Null before it is made),
\* threw tells that the insertion raised instead of returning
moveComponent(h, r, componentId, newParentId, position) ==
  LET component == findComponentById(h, r, componentId) IN
  IF component = Null THEN [ok |-> FALSE, threw |-> FALSE, h |-> h, cloned |-> Null]
  ELSE
    LET cl == cloneIRComponent(h, component)
        rm == removeComponent(cl.h, r, componentId)
    IN IF ~rm.ok THEN [ok |-> FALSE, threw |-> FALSE, h |-> rm.h, cloned |-> cl.n]
       ELSE
         LET newParent == findComponentById(rm.h, r, newParentId) IN
         IF newParent = Null THEN [ok |-> FALSE, threw |-> FALSE, h |-> rm.h, cloned |-> cl.n]
         ELSE
           LET added == IF position.type = "slot" /\ position.slotName # ""
                        THEN addSlotComponent(rm.h, newParent, position.slotName, cl.n, position.index)
                        ELSE addChildComponent(rm.h, newParent, cl.n, position.index)
           IN [ok |-> added.ok, threw |-> added.threw, h |-> added.h, cloned |-> cl.n]

\* an update that puts the patch in place of the old properties
updateReplaceProps(h, r, componentId, newProps) ==
  LET component == findComponentById(h, r, componentId) IN
  IF component = Null THEN [ok |-> FALSE, h |-> h]
  ELSE [ok |-> TRUE, h |-> [h EXCEPT ![component].props = newProps]]

\* {...component.props, ...newProps}; a key the patch does not carry is Absent in it
updateComponentProps(h, r, componentId, newProps) ==
  LET component == findComponentById(h, r, componentId) IN
  IF component = Null THEN [ok |-> FALSE, h |-> h]
  ELSE [ok |-> TRUE,
        h |-> [h EXCEPT ![component].props =
                 [k \in PropKeys |-> IF newProps[k] # Absent THEN newProps[k] ELSE @[k]]]]

\* "no path": the null searchPath returns when it finds nothing
NoPath == <<"<null>">>

\* i.toString() for an array index
IndexText(i) == ToString(i)

RECURSIVE searchPath(_, _, _, _), searchPathIn(_, _, _, _, _, _),
          searchPathSlots(_, _, _, _, _)
\* for (let i = 0; i < list.length; i++) { found = searchPath(list[i], [...path,
\* ...step, i.toString()]); if (found) return found }, from position i on (1-based)
searchPathIn(h, list, i, targetId, path, step) ==
  IF i > Len(list) THEN NoPath
  ELSE LET found == searchPath(h, list[i], targetId, path \o step \o <<IndexText(i - 1)>>)
       IN IF found # NoPath THEN found
          ELSE searchPathIn(h, list, i + 1, targetId, path, step)

\* the loop over Object.entries(component.slots), from entry k on
searchPathSlots(h, component, k, targetId, path) ==
  IF k > Len(h[component].slots) THEN NoPath
  ELSE LET slot == h[component].slots[k]
           found == searchPathIn(h, slot.members, 1, targetId, path, <<"slots", slot.name>>)
       IN IF found # NoPath THEN found
          ELSE searchPathSlots(h, component, k + 1, targetId, path)

\* a search that looks into the named slots before the children
searchPathSlotsFirst(h, component, targetId, path) ==
  IF h[component].id = targetId THEN path
  ELSE LET inSlots == IF h[component].hasSlots
                      THEN searchPathSlots(h, component, 1, targetId, path) ELSE NoPath
       IN IF inSlots # NoPath THEN inSlots
          ELSE IF h[component].hasChildren
          THEN searchPathIn(h, h[component].children, 1, targetId, path, <<"children">>)
          ELSE NoPath

searchPath(h, component, targetId, path) ==
  IF h[component].id = targetId THEN path
  ELSE LET inChildren == IF h[component].hasChildren
                         THEN searchPathIn(h, h[component].children, 1, targetId, path,
                                           <<"children">>)
                         ELSE NoPath
       IN IF inChildren # NoPath THEN inChildren
          ELSE IF h[component].hasSlots
          THEN searchPathSlots(h, component, 1, targetId, path)
          ELSE NoPath

\* getComponentPath: searchPath(root, []) || []
getComponentPath(h, r, targetId) ==
  LET found == searchPath(h, r, targetId, <<>>)
  IN IF found = NoPath THEN <<>> ELSE found

RECURSIVE searchDepth(_, _, _, _), searchDepthIn(_, _, _, _)
\* for (const c of list) { found = searchDepth(c, depth); if (found !== -1) return found }
searchDepthIn(h, list, targetId, depth) ==
  IF list = <<>> THEN -1
  ELSE LET found == searchDepth(h, Head(list), targetId, depth)
       IN IF found # -1 THEN found ELSE searchDepthIn(h, Tail(list), targetId, depth)

\* a search that counts a hop for children and none for slot members
searchDepthFlatSlots(h, n, targetId, depth) ==
  IF h[n].id = targetId THEN depth
  ELSE LET inChildren == IF h[n].hasChildren
                         THEN searchDepthIn(h, h[n].children, targetId, depth + 1) ELSE -1
       IN IF inChildren # -1 THEN inChildren
          ELSE IF h[n].hasSlots THEN searchDepthIn(h, SlotMembers(h[n].slots), targetId, depth)
          ELSE -1

searchDepth(h, n, targetId, depth) ==
  IF h[n].id = targetId THEN depth
  ELSE LET inChildren == IF h[n].hasChildren
                         THEN searchDepthIn(h, h[n].children, targetId, depth + 1) ELSE -1
       IN IF inChildren # -1 THEN inChildren
          ELSE IF h[n].hasSlots
          THEN searchDepthIn(h, SlotMembers(h[n].slots), targetId, depth + 1)
          ELSE -1

getComponentDepth(h, r, targetId) == searchDepth(h, r, targetId, 0)

\* ------------------------------------------- components/VisualBuilder.ts
\* The builder is constructed with an onIRChange callback; currentIR is the
\* root object the builder keeps.
\* getCurrentIR: { ...this.currentIR }, a new object with currentIR's fields
getCurrentIR(h, currentIR) == h[currentIR]

\* notifyIRChange: the arguments of the invocations of options.onIRChange
notifyIRChange(h, currentIR) == <<getCurrentIR(h, currentIR)>>

\* the children renderComponent descends into: those of a Row or a Stack
RenderKids(h, n) ==
  IF h[n].hasChildren /\ h[n].type \in {"Row", "Stack"} THEN h[n].children ELSE <<>>

RECURSIVE RenderClosure(_, _)
RenderClosure(h, S) ==
  LET T == S \cup UNION {Range(RenderKids(h, n)) : n \in S}
  IN IF T = S THEN S ELSE RenderClosure(h, T)

\* render(): renderComponent recurses without end, and the call stack
\* overflows, when a component it reaches is its own descendant
renderOverflows(h, currentIR) ==
  \E n \in RenderClosure(h, {currentIR}) :
    n \in RenderClosure(h, Range(RenderKids(h, n)))

\* what follows a successful edit: this.render(); this.notifyIRChange()
renderAndNotify(h, currentIR) ==
  IF renderOverflows(h, currentIR)
  THEN [threw |-> TRUE, calls |-> <<>>]
  ELSE [threw |-> FALSE, calls |-> notifyIRChange(h, currentIR)]

\* an addComponent that notifies whether or not it found the parent
addComponentAlwaysNotifies(h, currentIR, parentId, component) ==
  LET parent == findComponentById(h, currentIR, parentId) IN
  IF parent = Null
  THEN [ok |-> FALSE, threw |-> FALSE, h |-> h, calls |-> notifyIRChange(h, currentIR)]
  ELSE LET success == addChildComponent(h, parent, component, NoIndex)
           after == renderAndNotify(success.h, currentIR)
       IN [ok |-> success.ok, threw |-> after.threw, h |-> success.h, calls |-> after.calls]

\* addComponent(parentId, component): [ok, threw, h, calls]
addComponent(h, currentIR, parentId, component) ==
  LET parent == findComponentById(h, currentIR, parentId) IN
  IF parent = Null
  THEN [ok |-> FALSE, threw |-> FALSE, h |-> h, calls |-> <<>>]
  ELSE LET success == addChildComponent(h, parent, component, NoIndex)
           after == renderAndNotify(success.h, currentIR)
       IN [ok |-> success.ok, threw |-> after.threw, h |-> success.h, calls |-> after.calls]

\* VisualBuilder.removeComponent(componentId)
VisualBuilder_removeComponent(h, currentIR, componentId) ==
  LET success == removeComponent(h, currentIR, componentId) IN
  IF ~success.ok
  THEN [ok |-> FALSE, threw |-> FALSE, h |-> success.h, calls |-> <<>>]
  ELSE LET after == renderAndNotify(success.h, currentIR)
       IN [ok |-> TRUE, threw |-> after.threw, h |-> success.h, calls |-> after.calls]

\* a move that attaches a duplicate of the dragged component
handleComponentMoveClone(h, currentIR, draggedId, targetId) ==
  LET m == moveComponent(h, currentIR, draggedId, targetId, NoPosition) IN
  IF ~m.ok THEN [threw |-> FALSE, h |-> m.h, calls |-> <<>>]
  ELSE LET after == renderAndNotify(m.h, currentIR)
       IN [threw |-> after.threw, h |-> m.h, calls |-> after.calls]

\* handleComponentMove(draggedId, targetId): both lookups come before the
\* removal, and the dragged object itself is pushed onto the target
handleComponentMove(h, currentIR, draggedId, targetId) ==
  LET draggedComponent == findComponentById(h, currentIR, draggedId)
      targetParent == findComponentById(h, currentIR, targetId)
  IN IF draggedComponent = Null \/ targetParent = Null
     THEN [threw |-> FALSE, h |-> h, calls |-> <<>>]
     ELSE LET removeSuccess == removeComponent(h, currentIR, draggedId) IN
          IF ~removeSuccess.ok THEN [threw |-> FALSE, h |-> removeSuccess.h, calls |-> <<>>]
          ELSE LET addSuccess == addChildComponent(removeSuccess.h, targetParent,
                                                   draggedComponent, NoIndex)
                   after == renderAndNotify(addSuccess.h, currentIR)
               IN [threw |-> after.threw, h |-> addSuccess.h, calls |-> after.calls]

\* ------------------------------------------------------------ object heap
Kids(h, n) == h[n].children \o SlotMembers(h[n].slots)

RECURSIVE Walk(_, _, _), WalkList(_, _, _)
\* the objects reachable from n, appended to acc in pre-order, each once
Walk(h, n, acc) == IF InSeq(n, acc) THEN acc ELSE WalkList(h, Kids(h, n), Append(acc, n))

WalkList(h, list, acc) ==
  IF list = <<>> THEN acc ELSE WalkList(h, Tail(list), Walk(h, Head(list), acc))

Reach(h, n) == Range(Walk(h, n, <<>>))

\* objects no container refers to, other than the root: components the caller
\* created and has not attached yet
Detached(h, r) ==
  LET S == {n \in 1..Len(h) : n # r /\ \A m \in 1..Len(h) : ~InSeq(n, Kids(h, m))}
      RECURSIVE Sorted(_)
      Sorted(T) == IF T = {} THEN <<>>
                   ELSE LET m == CHOOSE x \in T : \A y \in T : x <= y
                        IN <<m>> \o Sorted(T \ {m})
  IN Sorted(S)

\* Garbage collection: the objects reachable from keep, renumbered in
\* pre-order of keep.  Handles carry no meaning of their own, so two heaps
\* that differ only in numbering are the same program state.
Collect(h, keep) ==
  LET order == WalkList(h, keep, <<>>)
      new(n) == IndexOf(n, order)
      ren(list) == [i \in 1..Len(list) |-> new(list[i])]
  IN [i \in 1..Len(order) |->
        [h[order[i]] EXCEPT
           !.children = ren(@),
           !.slots = [k \in 1..Len(@) |-> [name |-> @[k].name, members |-> ren(@[k].members)]]]]

\* ------------------------------------------------------------ ir/validator.ts
Finding(componentId, type, rule) == [componentId |-> componentId, type |-> type, rule |-> rule]

NoFindings == [errors |-> <<>>, warnings |-> <<>>]

Errors(list) == [errors |-> list, warnings |-> <<>>]

Both(a, b) == [errors |-> a.errors \o b.errors, warnings |-> a.warnings \o b.warnings]

\* !component.id: the empty string is the one falsy id
Falsy(id) == id = NoId

validateComponentStructure(h, n) ==
  Errors((IF Falsy(h[n].id)
          THEN <<Finding(UnknownId, "MISSING_REQUIRED_PROP", "string-id")>> ELSE <<>>)
      \o (IF h[n].type = ""
          THEN <<Finding(IF Falsy(h[n].id) THEN UnknownId ELSE h[n].id,
                         "MISSING_REQUIRED_PROP", "string-type")>>
          ELSE <<>>))

\* a truthy prop value: a non-empty string (Absent, NaN and null are falsy)
Truthy(v) == v \notin {Absent, NaNVal, NullVal, ""}

validateLayoutProps(h, n) ==
  LET props == h[n].props
      warn(rule) == <<Finding(h[n].id, "DEPRECATED_PROP", rule)>>
  IN IF h[n].type # "Row" /\ h[n].type # "Stack" THEN NoFindings
     ELSE [errors |-> <<>>,
           warnings |->
             (IF Truthy(props.alignItems)
                 /\ props.alignItems \notin {"start", "center", "end", "stretch"}
              THEN warn("alignItems") ELSE <<>>)
          \o (IF Truthy(props.justifyContent)
                 /\ props.justifyContent \notin {"start", "center", "end", "space-between",
                                                 "space-around", "space-evenly"}
              THEN warn("justifyContent") ELSE <<>>)
          \o (IF Truthy(props.gap) /\ props.gap \notin {"sm", "md", "lg"}
              THEN warn("gap") ELSE <<>>)]

\* validateButtonProps looks at variant and size only, and warns when one is
\* truthy and not a string; the props of the model carry neither key
validateButtonProps(h, n) == NoFindings

validateTypeSpecificProps(h, n) ==
  CASE h[n].type \in {"Row", "Stack"} -> validateLayoutProps(h, n)
    [] h[n].type = "Button" -> validateButtonProps(h, n)
    [] OTHER -> NoFindings

validateProps(h, sc, n) ==
  IF ~hasComponentType(sc, h[n].type) THEN NoFindings ELSE validateTypeSpecificProps(h, n)

RECURSIVE validateComponent(_, _, _), validateChildren(_, _, _), validateEach(_, _, _, _, _),
          validateSlots(_, _, _, _)
\* the same loop recording the containment error whether or not the entry has
\* an id
validateEachAnyId(h, sc, n, list, rule) ==
  IF list = <<>> THEN NoFindings
  ELSE LET child == Head(list)
           nesting == IF ~canContain(sc, h[n].type, h[child].type)
                      THEN <<Finding(h[child].id, "INVALID_NESTING", rule)>> ELSE <<>>
       IN Both(Both(Errors(nesting), validateComponent(h, sc, child)),
               validateEach(h, sc, n, Tail(list), rule))

\* the forEach over children or over the members of one slot: the containment
\* error of each entry, then the entry's own validation
validateEach(h, sc, n, list, rule) ==
  IF list = <<>> THEN NoFindings
  ELSE LET child == Head(list)
           nesting == IF ~Falsy(h[child].id) /\ ~canContain(sc, h[n].type, h[child].type)
                      THEN <<Finding(h[child].id, "INVALID_NESTING", rule)>> ELSE <<>>
       IN Both(Both(Errors(nesting), validateComponent(h, sc, child)),
               validateEach(h, sc, n, Tail(list), rule))

\* a check of the children without the comparison against maxChildren
validateChildrenNoMax(h, sc, n) ==
  IF ~h[n].hasChildren THEN NoFindings
  ELSE IF ~canHaveChildren(sc, h[n].type)
  THEN Errors(<<Finding(h[n].id, "INVALID_NESTING", "cannot-have-children")>>)
  ELSE validateEach(h, sc, n, h[n].children, "cannot-be-contained")

\* a check of the children that goes on after the cannot-have-children error
validateChildrenContinue(h, sc, n) ==
  IF ~h[n].hasChildren THEN NoFindings
  ELSE LET maxChildren == getMaxChildren(sc, h[n].type)
           cannot == IF ~canHaveChildren(sc, h[n].type)
                     THEN <<Finding(h[n].id, "INVALID_NESTING", "cannot-have-children")>>
                     ELSE <<>>
           over == IF maxChildren # Unlimited /\ Len(h[n].children) > maxChildren
                   THEN <<Finding(h[n].id, "INVALID_NESTING", "max-children")>> ELSE <<>>
       IN Both(Errors(cannot \o over),
               validateEach(h, sc, n, h[n].children, "cannot-be-contained"))

validateChildren(h, sc, n) ==
  IF ~h[n].hasChildren THEN NoFindings
  ELSE IF ~canHaveChildren(sc, h[n].type)
  THEN Errors(<<Finding(h[n].id, "INVALID_NESTING", "cannot-have-children")>>)
  ELSE LET maxChildren == getMaxChildren(sc, h[n].type)
           over == IF maxChildren # Unlimited /\ Len(h[n].children) > maxChildren
                   THEN <<Finding(h[n].id, "INVALID_NESTING", "max-children")>> ELSE <<>>
       IN Both(Errors(over), validateEach(h, sc, n, h[n].children, "cannot-be-contained"))

\* the forEach over Object.entries(component.slots), from entry k on
validateSlots(h, sc, n, k) ==
  IF ~h[n].hasSlots \/ k > Len(h[n].slots) THEN NoFindings
  ELSE LET slot == h[n].slots[k]
           here == IF ~isSlotAllowed(sc, h[n].type, slot.name)
                   THEN Errors(<<Finding(h[n].id, "INVALID_SLOT", "slot-not-allowed")>>)
                   ELSE validateEach(h, sc, n, slot.members, "cannot-be-placed")
       IN Both(here, validateSlots(h, sc, n, k + 1))

\* a validation that goes on to the other checks after the unknown-type error
validateComponentContinue(h, sc, n) ==
  Both(IF ~hasComponentType(sc, h[n].type)
       THEN Errors(<<Finding(h[n].id, "INVALID_TYPE", "unknown-type")>>) ELSE NoFindings,
       Both(Both(validateComponentStructure(h, n), validateChildren(h, sc, n)),
            Both(validateSlots(h, sc, n, 1), validateProps(h, sc, n))))

validateComponent(h, sc, n) ==
  IF ~hasComponentType(sc, h[n].type)
  THEN Errors(<<Finding(h[n].id, "INVALID_TYPE", "unknown-type")>>)
  ELSE Both(Both(validateComponentStructure(h, n), validateChildren(h, sc, n)),
            Both(validateSlots(h, sc, n, 1), validateProps(h, sc, n)))

\* a validate that counts warnings against validity
validateStrict(v, h, sc, n) ==
  LET f == Both(NoFindings, validateComponent(h, sc, n))
  IN [isValid |-> Len(f.errors) = 0 /\ Len(f.warnings) = 0,
      errors |-> f.errors, warnings |-> f.warnings]

\* a validate that walks without emptying the fields first
validateAccumulates(v, h, sc, n) ==
  LET f == Both(v, validateComponent(h, sc, n))
  IN [isValid |-> Len(f.errors) = 0, errors |-> f.errors, warnings |-> f.warnings]

\* validate(component) on the validator whose fields are v: this.errors = [];
\* this.warnings = []; then the walk pushes onto the fields; the result holds
\* copies of them
validate(v, h, sc, n) ==
  LET f == Both(NoFindings, validateComponent(h, sc, n))
  IN [isValid |-> Len(f.errors) = 0, errors |-> f.errors, warnings |-> f.warnings]

NoResult == [called |-> FALSE, isValid |-> TRUE, errors |-> <<>>, warnings |-> <<>>]

\* ------------------------------------------------------------------ inputs
CreateTypes == {"Stack", "Button"}
ValidatedTypes == {"Stack", "Button", "Leaf", "Box", "Bogus"}
SlotInputs == {"icon"}
ValidatedSlots == {"icon", "extra"}
AbsentId == [prefix |-> "component", type |-> "ghost", stamp |-> 0]
IdsOf(h) == {h[n].id : n \in 1..Len(h)}
Indexes == {NoIndex, 0}
Positions == {NoPosition, [type |-> "slot", slotName |-> "extra", index |-> NoIndex]}
Patches == {[NoProps EXCEPT !.gap = v] : v \in {"md", NaNVal}}
LayoutPatches ==
  {[NoProps EXCEPT ![k] = v] : k \in PropKeys, v \in {"center", "xl", ""}}
    \cup {[NoProps EXCEPT !.gap = "md"]}

\* types a caller registers next to the default ones (addComponentType)
ExtraTypes == { TypeDef("Leaf", <<>>, Unlimited, FALSE),
                TypeDef("Box", <<"icon">>, 1, TRUE) }

\* Ids are only ever compared for equality, so a generated stamp is either one
\* an earlier call of the same type produced (a collision) or the next new one.
Stamps(h, t) ==
  LET used == {h[n].id.stamp : n \in {m \in 1..Len(h) : h[m].id.type = Lower[t]}}
  IN {s \in 0..MaxStamp : \A u \in 0..(s - 1) : u \in used}

NewStamps(h, t) == {s \in Stamps(h, t) : \A n \in 1..Len(h) :
                      h[n].id.type = Lower[t] => h[n].id.stamp # s}

\* the components some container holds
Attached(h) == {n \in 1..Len(h) : \E m \in 1..Len(h) : InSeq(n, Kids(h, m))}

\* ----------------------------------------------------------------- actions
Init ==
  /\ heap = <<createIRComponent("Stack", NoProps, TRUE, 0)>>
  /\ root = 1
  /\ schema = DEFAULT_COMPONENT_TYPES
  /\ validator = NoFindings
  /\ result = NoResult
  /\ reused = FALSE
  /\ notified = 0

CreateNode(t, auto, s) ==
  /\ Len(heap) < MaxNodes
  /\ Len(Detached(heap, root)) < MaxPending
  /\ heap' = Append(heap, createIRComponent(t, NoProps, auto, s))
  /\ UNCHANGED <<root, schema, validator, result, reused, notified>>

\* addChildComponent(parent, child, index) on objects the caller holds.  A
\* child that contains parent would close a cycle, on which every walk of the
\* tree recurses without end; the tree is plain acyclic data.
AddChild(parent, child, index) ==
  /\ parent \notin Reach(heap, child)
  /\ LET r == addChildComponent(heap, parent, child, index) IN
       heap' = Collect(r.h, <<root>> \o Detached(r.h, root))
  /\ reused' = (reused \/ child \in Attached(heap))
  /\ UNCHANGED <<root, schema, validator, result, notified>>

AddToSlot(parent, slotName, child, index) ==
  /\ parent \notin Reach(heap, child)
  /\ LET r == addSlotComponent(heap, parent, slotName, child, index) IN
       heap' = Collect(r.h, <<root>> \o Detached(r.h, root))
  /\ reused' = (reused \/ child \in Attached(heap))
  /\ UNCHANGED <<root, schema, validator, result, notified>>

\* removeComponent(root, id); the caller keeps no reference to what it removed
Remove(id) ==
  /\ LET r == removeComponent(heap, root, id) IN
       heap' = Collect(r.h, <<root>> \o Detached(heap, root))
  /\ UNCHANGED <<root, schema, validator, result, reused, notified>>

\* moveComponent(root, id, newParentId, position).  With duplicated ids the
\* duplicate can hold a copy of the node that was removed, so the tree can
\* grow; the guard on the length keeps the heap within the bound.
Move(id, newParentId, position) ==
  /\ LET r == moveComponent(heap, root, id, newParentId, position) IN
       heap' = Collect(r.h, <<root>> \o Detached(heap, root))
  /\ Len(heap') <= MaxNodes
  /\ UNCHANGED <<root, schema, validator, result, reused, notified>>

UpdateProps(id, patch) ==
  /\ Cardinality({n \in 1..Len(heap) : heap[n].props # NoProps}) < MaxPatches
  /\ LET r == updateComponentProps(heap, root, id, patch) IN heap' = r.h
  /\ UNCHANGED <<root, schema, validator, result, reused, notified>>

\* IRValidator.validate(root)
Validate ==
  /\ LET v == validate(validator, heap, schema, root) IN
       /\ validator' = [errors |-> v.errors, warnings |-> v.warnings]
       /\ result' = [called |-> TRUE, isValid |-> v.isValid,
                     errors |-> v.errors, warnings |-> v.warnings]
  /\ UNCHANGED <<heap, root, schema, reused, notified>>

Fresh == Range(Detached(heap, root))
\* the components a caller hands to an add call: one it has just created, or,
\* at most once in a run, one the tree already holds
Held == IF reused THEN Fresh ELSE 1..Len(heap)
Parents == 1..Len(heap)
Ids == IdsOf(heap) \cup {AbsentId}

\* The mutation engine driven by an editor that attaches what it has just created
Next ==
  \/ \E t \in CreateTypes : \E s \in Stamps(heap, t) : CreateNode(t, TRUE, s)
  \/ \E p \in Parents, c \in Fresh, i \in Indexes : AddChild(p, c, i)
  \/ \E p \in Parents, c \in Fresh, n \in SlotInputs, i \in Indexes : AddToSlot(p, n, c, i)
  \/ \E id \in Ids : Remove(id)
  \/ \E id \in Ids, d \in Ids, pos \in Positions : Move(id, d, pos)
  \/ \E id \in Ids, patch \in Patches : UpdateProps(id, patch)

Spec == Init /\ [][Next]_vars

\* The same engine when a caller may hand an add call a component the tree
\* already holds
NextShare ==
  \/ \E s \in NewStamps(heap, "Button") : CreateNode("Button", TRUE, s)
  \/ \E p \in Parents, c \in Held : AddChild(p, c, NoIndex)
  \/ \E p \in Parents, c \in Held : AddToSlot(p, "icon", c, NoIndex)
  \/ \E id \in Ids : Remove(id)
  \/ \E id \in Ids, d \in Ids : Move(id, d, NoPosition)
  \/ \E id \in Ids : UpdateProps(id, [NoProps EXCEPT !.gap = "md"])

SpecShare == Init /\ [][NextShare]_vars

\* Construction only: createIRComponent, addChildComponent, addSlotComponent
NextBuild ==
  \/ \E t \in CreateTypes, auto \in BOOLEAN : \E s \in Stamps(heap, t) : CreateNode(t, auto, s)
  \/ \E p \in Parents, c \in Held, i \in Indexes : AddChild(p, c, i)
  \/ \E p \in Parents, c \in Held, n \in SlotInputs, i \in Indexes : AddToSlot(p, n, c, i)

SpecBuild == Init /\ [][NextBuild]_vars

\* The validator applied to trees of registered and unregistered types
InitValidate ==
  /\ \E t \in ValidatedTypes \cup {"Row"} : heap = <<createIRComponent(t, NoProps, TRUE, 0)>>
  /\ root = 1
  /\ schema = DEFAULT_COMPONENT_TYPES \cup ExtraTypes
  /\ validator = NoFindings
  /\ result = NoResult
  /\ reused = FALSE
  /\ notified = 0

NextValidate ==
  \/ /\ ~result.called
     /\ \/ \E t \in ValidatedTypes : \E s \in NewStamps(heap, t) : CreateNode(t, TRUE, s)
        \/ \E p \in Parents, c \in Fresh : AddChild(p, c, NoIndex)
        \/ \E p \in Parents, c \in Fresh, n \in ValidatedSlots : AddToSlot(p, n, c, NoIndex)
        \/ \E id \in Ids, patch \in LayoutPatches : UpdateProps(id, patch)
  \/ Validate

SpecValidate == InitValidate /\ [][NextValidate]_vars

\* The schema registry as callers register and remove types
TypeNames == {"Row", "Stack", "Button", "Leaf", "Bogus", "constructor"}
SlotNameInputs == {"main", "icon", "extra"}
SchemaDefs ==
  {TypeDef(t, slots, max, can) :
     t \in {"Button", "Leaf"}, slots \in {<<>>, <<"main">>, <<"icon">>},
     max \in {Unlimited, -1, 0, 1}, can \in BOOLEAN}

AddComponentType(def) ==
  /\ schema' = addComponentType(schema, def)
  /\ UNCHANGED <<heap, root, validator, result, reused, notified>>

RemoveComponentType(t) ==
  /\ schema' = removeComponentType(schema, t).sc
  /\ UNCHANGED <<heap, root, validator, result, reused, notified>>

NextSchema ==
  \/ \E def \in SchemaDefs : AddComponentType(def)
  \/ \E t \in TypeNames : RemoveComponentType(t)

SpecSchema == Init /\ [][NextSchema]_vars

\* The VisualBuilder driven through its public methods and its drop handler
BuilderTypes == {"Stack", "Button"}

RECURSIVE KidsClosure(_, _)
KidsClosure(h, S) ==
  LET T == S \cup UNION {Range(Kids(h, n)) : n \in S}
  IN IF T = S THEN S ELSE KidsClosure(h, T)

\* some component reachable from r is its own descendant
CyclicFrom(h, r) ==
  \E n \in KidsClosure(h, {r}) : n \in KidsClosure(h, Range(Kids(h, n)))

\* builder.addComponent(parentId, createIRComponent(t))
BuilderAdd(parentId, t, s) ==
  /\ Len(heap) < MaxBuilderNodes
  /\ LET created == Append(heap, createIRComponent(t, NoProps, TRUE, s))
         r == addComponent(created, root, parentId, Len(created))
     IN /\ notified + Len(r.calls) <= MaxNotified
        /\ heap' = Collect(r.h, <<root>>)
        /\ notified' = notified + Len(r.calls)
  /\ UNCHANGED <<root, schema, validator, result, reused>>

\* builder.removeComponent(componentId)
BuilderRemove(id) ==
  /\ LET r == VisualBuilder_removeComponent(heap, root, id)
     IN /\ notified + Len(r.calls) <= MaxNotified
        /\ heap' = Collect(r.h, <<root>>)
        /\ notified' = notified + Len(r.calls)
  /\ UNCHANGED <<root, schema, validator, result, reused>>

\* the drop listener: handleComponentMove(draggedId, targetId) for two
\* different ids.  A tree left with a cycle makes every later walk of it
\* recurse without end, so the run is not followed beyond such a drop.
BuilderDrop(draggedId, targetId) ==
  /\ draggedId # targetId
  /\ LET r == handleComponentMove(heap, root, draggedId, targetId)
     IN /\ ~CyclicFrom(r.h, root)
        /\ notified + Len(r.calls) <= MaxNotified
        /\ heap' = Collect(r.h, <<root>>)
        /\ notified' = notified + Len(r.calls)
  /\ UNCHANGED <<root, schema, validator, result, reused>>

NextBuilder ==
  \/ \E p \in Ids, t \in BuilderTypes : \E s \in Stamps(heap, t) : BuilderAdd(p, t, s)
  \/ \E id \in Ids : BuilderRemove(id)
  \/ \E d \in Ids, t \in Ids : BuilderDrop(d, t)

SpecBuilder == Init /\ [][NextBuilder]_vars

\* ------------------------------------------------- vocabulary of the claims
\* how often id occurs in the tree under n, counting a shared object once per
\* place it is held
RECURSIVE Occurs(_, _, _), OccursIn(_, _, _)
OccursIn(h, list, id) ==
  IF list = <<>> THEN 0 ELSE Occurs(h, Head(list), id) + OccursIn(h, Tail(list), id)

Occurs(h, n, id) == (IF h[n].id = id THEN 1 ELSE 0) + OccursIn(h, Kids(h, n), id)

TreeIds(h, r) == {h[n].id : n \in Reach(h, r)}

UniqueTree(h, r) == \A id \in TreeIds(h, r) : Occurs(h, r, id) = 1

\* the containers that hold object n: <<parent, 0, position>> for children,
\* <<parent, k, position>> for the k-th slot
HoldersIn(h, m, n) ==
  {<<m, 0, i>> : i \in {j \in 1..Len(h[m].children) : h[m].children[j] = n}}
    \cup UNION {{<<m, k, i>> : i \in {j \in 1..Len(h[m].slots[k].members) :
                                        h[m].slots[k].members[j] = n}} :
                k \in 1..Len(h[m].slots)}

Holders(h, n) == UNION {HoldersIn(h, m, n) : m \in 1..Len(h)}

NoSharing(h) == \A n \in 1..Len(h) : Cardinality(Holders(h, n)) <= 1

\* the subtree under n as plain data, free of handles
RECURSIVE ToValue(_, _)
ToValue(h, n) ==
  [id |-> h[n].id, type |-> h[n].type, props |-> h[n].props,
   hasChildren |-> h[n].hasChildren,
   children |-> [i \in 1..Len(h[n].children) |-> ToValue(h, h[n].children[i])],
   hasSlots |-> h[n].hasSlots,
   slots |-> [k \in 1..Len(h[n].slots) |->
                [name |-> h[n].slots[k].name,
                 members |-> [i \in 1..Len(h[n].slots[k].members) |->
                                ToValue(h, h[n].slots[k].members[i])]]]]

\* every property value under n is one a JSON round trip leaves as it is
PlainData(h, n) == \A m \in Reach(h, n), k \in PropKeys : h[m].props[k] # NaNVal

NodeOf(h, r, id) == CHOOSE n \in Reach(h, r) : h[n].id = id

\* ------------------------------------------------------------------ claims
Last(list) == list[Len(list)]

\* x names a non-root node X, p a node P that is neither X nor inside X's
\* subtree, in a tree with unique ids
MoveCase(h, r, x, p) ==
  /\ UniqueTree(h, r)
  /\ x \in TreeIds(h, r) /\ p \in TreeIds(h, r)
  /\ x # h[r].id
  /\ NodeOf(h, r, p) \notin Reach(h, NodeOf(h, r, x))

\* move(root, x, p) returned true and X now sits, unchanged, at the end of
\* P.children
MoveRelocates(h, r, x, p) ==
  LET X == NodeOf(h, r, x)
      P == NodeOf(h, r, p)
      m == moveComponent(h, r, x, p, NoPosition)
  IN /\ m.ok
     /\ Occurs(m.h, r, x) = 1
     /\ \A n \in Reach(m.h, r) : (\E c \in Range(Kids(m.h, n)) : m.h[c].id = x) => n = P
     /\ m.h[P].children # <<>>
     /\ m.h[Last(m.h[P].children)].id = x
     /\ ToValue(m.h, Last(m.h[P].children)) = ToValue(h, X)
     /\ TreeIds(m.h, r) = TreeIds(h, r)

\* C1 as stated: a move without position to a destination outside the moved
\* subtree, in a tree with unique ids, returns true and leaves the node once
\* in the tree, as the last child of the destination, with its subtree
\* structurally equal to what it was and the same set of ids in the tree.
C1_AsStated ==
  \A x \in TreeIds(heap, root), p \in TreeIds(heap, root) :
    MoveCase(heap, root, x, p) => MoveRelocates(heap, root, x, p)

\* C1 amended: the same, for a moved subtree whose property values are plain
\* JSON data (the duplicate is made by a JSON round trip).
C1_MoveRelocates ==
  \A x \in TreeIds(heap, root), p \in TreeIds(heap, root) :
    (MoveCase(heap, root, x, p) /\ PlainData(heap, NodeOf(heap, root, x)))
      => MoveRelocates(heap, root, x, p)

\* a node with a child and a set property can be moved to a destination
\* outside its subtree, and the move relocates it
C1_Witness ==
  \E x \in TreeIds(heap, root), p \in TreeIds(heap, root) :
    /\ MoveCase(heap, root, x, p)
    /\ PlainData(heap, NodeOf(heap, root, x))
    /\ Kids(heap, NodeOf(heap, root, x)) # <<>>
    /\ \E n \in Reach(heap, NodeOf(heap, root, x)) : heap[n].props # NoProps
    /\ MoveRelocates(heap, root, x, p)

\* list without the object X
Without(list, X) == SelectSeq(list, LAMBDA c : c # X)

\* slots without the object X, an entry X was the only member of dropped
SlotsWithout(slots, X) ==
  SelectSeq([k \in 1..Len(slots) |-> [name |-> slots[k].name,
                                       members |-> Without(slots[k].members, X)]],
            LAMBDA e : e.members # <<>>)

\* every object of the tree h outside X's subtree is in the tree h2 as it was
\* in h, its containers holding what they held, X taken out
OutsideUnchanged(h, h2, r, X) ==
  \A n \in Reach(h, r) \ Reach(h, X) :
    /\ n \in Reach(h2, r)
    /\ h2[n] = [h[n] EXCEPT !.children = Without(@, X), !.slots = SlotsWithout(@, X)]

\* ids that name no node
AbsentIds == {AbsentId, NoId}

\* x names a node that is not the root object
NonRootId(h, r, x) == \E n \in Reach(h, r) \ {r} : h[n].id = x

\* move(root, x, q) returned false and the node named x, with its subtree, is
\* out of the tree while the rest of the tree is as it was
MoveLoses(h, r, x, q, position) ==
  LET X == findComponentById(h, r, x)
      m == moveComponent(h, r, x, q, position)
  IN /\ ~m.ok
     /\ findComponentById(m.h, r, x) = Null
     /\ Reach(m.h, r) \cap Reach(h, X) = {}
     /\ OutsideUnchanged(h, m.h, r, X)

\* C2 as stated: when the source id names a non-root node and newParentId
\* names no node, move returns false, findById no longer finds the source id,
\* the source subtree is unreachable and every node outside it is unchanged.
C2_AsStated ==
  \A x \in TreeIds(heap, root), q \in AbsentIds, position \in Positions :
    (NonRootId(heap, root, x) /\ q \notin TreeIds(heap, root))
      => MoveLoses(heap, root, x, q, position)

\* C2 amended: the same, for a tree with unique ids.
C2_MoveLosesNode ==
  \A x \in TreeIds(heap, root), q \in AbsentIds, position \in Positions :
    (UniqueTree(heap, root) /\ NonRootId(heap, root, x) /\ q \notin TreeIds(heap, root))
      => MoveLoses(heap, root, x, q, position)

\* a node with a child of its own, in a tree with unique ids, is lost by a
\* move to a parent id that names nothing
C2_Witness ==
  \E x \in TreeIds(heap, root) :
    /\ UniqueTree(heap, root) /\ NonRootId(heap, root, x)
    /\ Kids(heap, findComponentById(heap, root, x)) # <<>>
    /\ MoveLoses(heap, root, x, AbsentId, NoPosition)
    /\ Len(moveComponent(heap, root, x, AbsentId, NoPosition).h) > Len(heap)

\* findById finds a node for an id the tree holds
FindsPresent(h, r, id) ==
  id \in TreeIds(h, r) =>
    /\ findComponentById(h, r, id) \in Reach(h, r)
    /\ h[findComponentById(h, r, id)].id = id

\* after the removal that gave h2, neither findById nor getAllIds shows id
GoneAfterRemove(h2, r, id) ==
  /\ findComponentById(h2, r, id) = Null
  /\ ~InSeq(id, getAllComponentIds(h2, r))

\* C3 as stated: for any tree, findById finds every id present, and whenever
\* remove(root, id) returns true, findById(root, id) is absent afterwards and
\* getAllIds(root) does not contain id.
C3_AsStated ==
  \A id \in Ids :
    /\ FindsPresent(heap, root, id)
    /\ removeComponent(heap, root, id).ok
         => GoneAfterRemove(removeComponent(heap, root, id).h, root, id)

\* C3 amended: findById finds every id present, and whenever remove(root, id)
\* returns true for an id that occurred exactly once in the tree, findById is
\* absent afterwards and getAllIds does not contain id.
C3_FindRemoveSymmetry ==
  \A id \in Ids :
    /\ FindsPresent(heap, root, id)
    /\ (removeComponent(heap, root, id).ok /\ Occurs(heap, root, id) = 1)
         => GoneAfterRemove(removeComponent(heap, root, id).h, root, id)

\* a tree in which one id occurs twice and another once; removing the latter
\* succeeds and leaves no trace of it
C3_Witness ==
  \E id \in TreeIds(heap, root) :
    /\ ~UniqueTree(heap, root)
    /\ Occurs(heap, root, id) = 1
    /\ removeComponent(heap, root, id).ok
    /\ GoneAfterRemove(removeComponent(heap, root, id).h, root, id)

NoEmptySlots(h, n) == \A k \in 1..Len(h[n].slots) : h[n].slots[k].members # <<>>

\* C4: no component's slots mapping holds a slot name mapped to an empty
\* array, and a remove that takes the only member out of a named slot leaves
\* that slot name out of the slots mapping.
C4_NoEmptySlotArrays ==
  /\ \A n \in 1..Len(heap) : NoEmptySlots(heap, n)
  /\ \A id \in Ids :
       LET rm == removeComponent(heap, root, id) IN
       \A n \in Reach(heap, root) : \A k \in 1..Len(heap[n].slots) :
         (rm.ok /\ Len(heap[n].slots[k].members) = 1
            /\ ~InSeq(heap[n].slots[k], rm.h[n].slots))
           => ~InSeq(heap[n].slots[k].name, SlotNames(rm.h[n].slots))

\* a Stack, created without slots, whose slots mapping exists and is empty:
\* its one slot was filled and then emptied again
C4_Witness ==
  \E n \in Reach(heap, root) :
    heap[n].type = "Stack" /\ heap[n].hasSlots /\ heap[n].slots = <<>>

\* a successful move(root, x, d, position) attached an object that did not
\* exist before the call
MoveAttachesDuplicate(h, r, x, d, position) ==
  LET m == moveComponent(h, r, x, d, position)
  IN m.ok => (m.cloned \notin 1..Len(h) /\ Cardinality(Holders(m.h, m.cloned)) = 1)

\* a successful move(root, x, d, position) left no object of the original
\* subtree in the tree
MoveDiscardsOriginal(h, r, x, d, position) ==
  LET m == moveComponent(h, r, x, d, position)
  IN m.ok => Reach(m.h, r) \cap Reach(h, findComponentById(h, r, x)) = {}

\* C5 as stated: in every state the operations reach no component is held by
\* two containers (or twice by one), and a successful move attaches a
\* duplicate and discards the original.
C5_AsStated ==
  /\ NoSharing(heap)
  /\ \A x \in Ids, d \in Ids, position \in Positions :
       /\ MoveAttachesDuplicate(heap, root, x, d, position)
       /\ MoveDiscardsOriginal(heap, root, x, d, position)

\* C5 amended: as long as no add call was handed a component that a container
\* already held, no component is held twice; a successful move attaches a
\* newly made duplicate, and in a tree with unique ids none of the original
\* subtree stays in the tree.
C5_OnePlace ==
  /\ ~reused => NoSharing(heap)
  /\ \A x \in Ids, d \in Ids, position \in Positions :
       /\ MoveAttachesDuplicate(heap, root, x, d, position)
       /\ UniqueTree(heap, root) => MoveDiscardsOriginal(heap, root, x, d, position)

\* no add call has reused a component, the ids are unique, and a node with a
\* child of its own can be moved
C5_Witness ==
  /\ ~reused /\ UniqueTree(heap, root)
  /\ \E x \in Ids, d \in Ids :
       /\ moveComponent(heap, root, x, d, NoPosition).ok
       /\ Kids(heap, findComponentById(heap, root, x)) # <<>>
       /\ MoveDiscardsOriginal(heap, root, x, d, NoPosition)

\* the components created so far carry pairwise different ids
DistinctIds(h) == \A a \in 1..Len(h), b \in 1..Len(h) : a # b => h[a].id # h[b].id

NoDuplicates == [isValid |-> TRUE, duplicates |-> <<>>]

ErrorsOf(n) == validate(validator, heap, schema, n).errors

\* every error the subtree under n produces on its own is among the errors
\* the validate call on the root returned
Surfaces(n) == \A i \in 1..Len(ErrorsOf(n)) : InSeq(ErrorsOf(n)[i], result.errors)

\* the components one validate call on n visits: n, the children of a visited
\* component of a registered type that can have children, and the members of
\* the slots a visited component's registered type allows
RECURSIVE Visited(_, _, _)
Visited(h, sc, n) ==
  {n} \cup
  (IF ~hasComponentType(sc, h[n].type) THEN {}
   ELSE (IF h[n].hasChildren /\ canHaveChildren(sc, h[n].type)
         THEN UNION {Visited(h, sc, c) : c \in Range(h[n].children)} ELSE {})
        \cup UNION {UNION {Visited(h, sc, c) : c \in Range(h[n].slots[k].members)} :
                      k \in {j \in 1..Len(h[n].slots) :
                               isSlotAllowed(sc, h[n].type, h[n].slots[j].name)}})

ErrorsFor(id) == SelectSeq(result.errors, LAMBDA e : e.componentId = id)

Unregistered(n) == ~hasComponentType(schema, heap[n].type)

InvalidType(n) == Finding(heap[n].id, "INVALID_TYPE", "unknown-type")

OverCapacity(n) ==
  /\ hasComponentType(schema, heap[n].type)
  /\ canHaveChildren(schema, heap[n].type)
  /\ getMaxChildren(schema, heap[n].type) # Unlimited
  /\ getMaxChildren(schema, heap[n].type) >= 1
  /\ Len(heap[n].children) > getMaxChildren(schema, heap[n].type)
  /\ \A c \in Range(heap[n].children) :
       canContain(schema, heap[n].type, heap[c].type) /\ validate(validator, heap, schema, c).isValid

\* the invalid-nesting errors in list that carry n's id
NestingErrorsFor(list, n) ==
  SelectSeq(list, LAMBDA e : e.componentId = heap[n].id /\ e.type = "INVALID_NESTING")

\* C9: addChild returns true and inserts whatever the parent already holds,
\* and validate on a component of a registered container type with
\* maxChildren = n >= 1 that holds more than n otherwise legal children
\* reports exactly one invalid-nesting error carrying that component's id.
C9_UncheckedOverCapacity ==
  /\ \A p \in Parents, c \in Parents, i \in Indexes :
       /\ addChildComponent(heap, p, c, i).ok
       /\ Len(addChildComponent(heap, p, c, i).h[p].children) = Len(heap[p].children) + 1
  /\ \A n \in Reach(heap, root) :
       OverCapacity(n) => Len(NestingErrorsFor(ErrorsOf(n), n)) = 1
  /\ (result.called /\ OverCapacity(root)) => Len(NestingErrorsFor(result.errors, root)) = 1

\* validate was called on a root of a type with maxChildren = 1 that holds two
\* legal children, and returned the one invalid-nesting error for the root
C9_Witness ==
  /\ result.called
  /\ OverCapacity(root)
  /\ Len(heap[root].children) = 2
  /\ result.errors = <<Finding(heap[root].id, "INVALID_NESTING", "max-children")>>

\* the values validateLayoutProps recognises for key k
Recognised(k) ==
  CASE k = "alignItems" -> {"start", "center", "end", "stretch"}
    [] k = "justifyContent" -> {"start", "center", "end", "space-between", "space-around",
                                "space-evenly"}
    [] OTHER -> {"sm", "md", "lg"}

\* n is a Row or Stack whose props carry, under key k, a value outside the
\* recognised set
BadLayoutValue(n, k) ==
  /\ heap[n].type \in {"Row", "Stack"}
  /\ heap[n].props[k] # Absent
  /\ heap[n].props[k] \notin Recognised(k)

WarningsFor(n, k) ==
  SelectSeq(result.warnings, LAMBDA w : w.componentId = heap[n].id /\ w.rule = k)

\* isValid is true exactly when no error was returned, and no error is about a
\* layout property
ValidIffNoErrors ==
  /\ result.isValid <=> result.errors = <<>>
  /\ \A i \in 1..Len(result.errors) : result.errors[i].rule \notin PropKeys

\* C10 as stated: isValid is true exactly when the error list is empty, and
\* every Row or Stack with an alignItems, justifyContent or gap value outside
\* the recognised set produces a warning and no error.
C10_AsStated ==
  result.called =>
    /\ ValidIffNoErrors
    /\ \A n \in Reach(heap, root), k \in PropKeys :
         BadLayoutValue(n, k) => Len(WarningsFor(n, k)) = 1

\* C10 amended: isValid is true exactly when the error list is empty, and
\* every Row or Stack that the walk visits with a non-empty string outside the
\* recognised set as alignItems, justifyContent or gap produces a warning and
\* no error; an empty value, or one on a component the walk does not visit,
\* produces nothing.
C10_WarningsLeaveValid ==
  result.called =>
    /\ ValidIffNoErrors
    /\ \A n \in Reach(heap, root), k \in PropKeys :
         BadLayoutValue(n, k) =>
           Len(WarningsFor(n, k)) =
             (IF n \in Visited(heap, schema, root) /\ heap[n].props[k] # "" THEN 1 ELSE 0)

\* validate was called on a tree whose only finding is the warning for a gap
\* outside the recognised set, and reported it valid
C10_Witness ==
  /\ result.called
  /\ BadLayoutValue(root, "gap")
  /\ Len(heap) > 1
  /\ result.errors = <<>>
  /\ Len(result.warnings) = 1
  /\ result.isValid

\* some caller registered t: the schema holds a definition under that name
Registered(t) == \E d \in schema : d.type = t

DefOf(t) == CHOOSE d \in schema : d.type = t

\* the allowed slot list of t, empty for an unregistered type
Listed(t) == IF Registered(t) THEN Range(DefOf(t).allowedSlots) ELSE {}

\* C11: isSlotAllowed(type, name) is true exactly when name or "main" is in
\* the type's allowed slot list; so it is true for every name when the list
\* includes "main" and false for every name when the type is unregistered.
C11_SlotAllowedIffListedOrMain ==
  \A t \in TypeNames :
    /\ \A name \in SlotNameInputs :
         isSlotAllowed(schema, t, name) <=> (name \in Listed(t) \/ "main" \in Listed(t))
    /\ "main" \in Listed(t) => \A name \in SlotNameInputs : isSlotAllowed(schema, t, name)
    /\ ~Registered(t) => \A name \in SlotNameInputs : ~isSlotAllowed(schema, t, name)

\* a schema with a type that allows every name through "main", a type that
\* lists "icon" alone and so allows "icon" and not "extra", and a removed type
C11_Witness ==
  /\ "main" \in Listed("Button") /\ isSlotAllowed(schema, "Button", "extra")
  /\ Listed("Leaf") = {"icon"}
  /\ isSlotAllowed(schema, "Leaf", "icon") /\ ~isSlotAllowed(schema, "Leaf", "extra")
  /\ ~Registered("Row") /\ ~isSlotAllowed(schema, "Row", "main")

\* what the rules give for parent type p and child type c: both registered,
\* the parent able to have children, its maxChildren absent or above 0, and
\* not a Button holding a Row or a Stack
MayContain(p, c) ==
  /\ Registered(p) /\ Registered(c)
  /\ DefOf(p).canHaveChildren
  /\ ~(DefOf(p).maxChildren # Unlimited /\ DefOf(p).maxChildren <= 0)
  /\ ~(p = "Button" /\ c \in {"Row", "Stack"})

DefaultSchemaCases ==
  schema = DEFAULT_COMPONENT_TYPES =>
    /\ ~canContain(schema, "Button", "Row")
    /\ canContain(schema, "Row", "Button")
    /\ canContain(schema, "Row", "Stack")

\* C12: canContain(parentType, childType) is false when either type is
\* unregistered, when the parent cannot have children, when the parent's
\* maxChildren is present and <= 0, and for Button containing Row or Stack,
\* and true in every other case; in the default schema canContain(Button, Row)
\* is false, canContain(Row, Button) and canContain(Row, Stack) are true.
C12_AsStated ==
  /\ \A p \in TypeNames, c \in TypeNames : canContain(schema, p, c) <=> MayContain(p, c)
  /\ DefaultSchemaCases

\* C12 for child type names that Object.prototype does not define: there the
\* rules decide
C12_OwnNames ==
  /\ \A p \in TypeNames, c \in TypeNames \ ProtoKeys :
       canContain(schema, p, c) <=> MayContain(p, c)
  /\ DefaultSchemaCases

\* the number of containers between the root r and the object n below it
RECURSIVE Hops(_, _, _)
Hops(h, r, n) ==
  IF n = r THEN 0 ELSE 1 + Hops(h, r, (CHOOSE t \in Holders(h, n) : TRUE)[1])

\* the objects of the tree that carry id
Carriers(h, r, id) == {n \in Reach(h, r) : h[n].id = id}

\* C13: getDepth(root, id) is 0 for the root's id, the number of container
\* hops from the root for any other id present (1 for a direct child or slot
\* member of the root), and -1 exactly when no node of the tree has the id.
C13_DepthIsHops ==
  \A id \in Ids :
    LET depth == getComponentDepth(heap, root, id) IN
    /\ id = heap[root].id => depth = 0
    /\ id \in TreeIds(heap, root) =>
         /\ depth \in {Hops(heap, root, n) : n \in Carriers(heap, root, id)}
         /\ depth = Hops(heap, root, findComponentById(heap, root, id))
    /\ (Carriers(heap, root, id) \subseteq Range(Kids(heap, root))
          /\ Carriers(heap, root, id) # {}) => depth = 1
    /\ depth = -1 <=> id \notin TreeIds(heap, root)

\* a slot member of the root at depth 1 that holds a child at depth 2, and an
\* id no node has at depth -1
C13_Witness ==
  /\ \E a \in Range(SlotMembers(heap[root].slots)) : \E b \in Range(heap[a].children) :
       /\ getComponentDepth(heap, root, heap[a].id) = 1
       /\ getComponentDepth(heap, root, heap[b].id) = 2
  /\ getComponentDepth(heap, root, AbsentId) = -1

\* the objects of the tree in pre-order: a node, then its children's subtrees
\* in order, then the subtrees of its slots' members
PreOrder(h, r) == Walk(h, r, <<>>)

IdsInPreOrder(h, r) == [i \in 1..Len(PreOrder(h, r)) |-> h[PreOrder(h, r)[i]].id]

\* C14: getAllIds lists the ids in pre-order, children before named slots,
\* one entry per node; findById returns the node at the first position of the
\* id in that order, also for a duplicated id, and absent exactly when the id
\* is not in getAllIds.
C14_SharedPreOrder ==
  /\ getAllComponentIds(heap, root) = IdsInPreOrder(heap, root)
  /\ Len(getAllComponentIds(heap, root)) = Cardinality(Reach(heap, root))
  /\ getAllComponentIds(heap, root)[1] = heap[root].id
  /\ \A id \in Ids :
       IF InSeq(id, getAllComponentIds(heap, root))
       THEN findComponentById(heap, root, id) =
              PreOrder(heap, root)[IndexOf(id, getAllComponentIds(heap, root))]
       ELSE findComponentById(heap, root, id) = Null

\* a root with a child and a slot member that carry one id: the id is listed
\* twice, the child first, and findById returns the child
C14_Witness ==
  \E c \in Range(heap[root].children), m \in Range(SlotMembers(heap[root].slots)) :
    /\ heap[c].id = heap[m].id
    /\ getAllComponentIds(heap, root) = <<heap[root].id, heap[c].id, heap[m].id>>
    /\ findComponentById(heap, root, heap[m].id) = c

\* C15: findParent(root, id) returns a node whose children or one of whose
\* slots directly holds a node with the id, and absent when no node other
\* than the root has the id.
C15_FindParentIsDirectHolder ==
  \A id \in Ids :
    LET P == findParentComponent(heap, root, id) IN
    /\ P # Null => (P \in Reach(heap, root)
                     /\ \E c \in Range(Kids(heap, P)) : heap[c].id = id)
    /\ Carriers(heap, root, id) \subseteq {root} => P = Null
    /\ Carriers(heap, root, id) \ {root} # {} => P # Null

\* a node below the root holds another in a slot and is found as its parent,
\* while the root's id and an id no node has give absent
C15_Witness ==
  /\ \E a \in Range(Kids(heap, root)) : \E b \in Range(SlotMembers(heap[a].slots)) :
       findParentComponent(heap, root, heap[b].id) = a
  /\ findParentComponent(heap, root, heap[root].id) = Null
  /\ findParentComponent(heap, root, AbsentId) = Null

IndexInputs == {NoIndex, -1, 0, 1, 2, 3}
SlotNamesGiven == {"icon", "extra", "constructor"}

\* new is old with child put in: at index when index is given and within
\* [0, length], at the end otherwise; the entries of old keep their order
InsertedAt(old, new, child, index) ==
  LET at == IF index # NoIndex /\ index >= 0 /\ index <= Len(old)
            THEN index + 1 ELSE Len(old) + 1
  IN /\ Len(new) = Len(old) + 1
     /\ new[at] = child
     /\ \A i \in 1..Len(old) : old[i] = new[IF i < at THEN i ELSE i + 1]

\* the members parent holds in the slot called name (none when it has none)
MembersOf(h, parent, name) ==
  IF InSeq(name, SlotNames(h[parent].slots))
  THEN h[parent].slots[IndexOf(name, SlotNames(h[parent].slots))].members
  ELSE <<>>

AddChildRule(parent, child, index) ==
  LET a == addChildComponent(heap, parent, child, index) IN
  /\ a.ok /\ ~a.threw
  /\ InsertedAt(heap[parent].children, a.h[parent].children, child, index)
  /\ a.h = [heap EXCEPT ![parent].hasChildren = TRUE,
                         ![parent].children = a.h[parent].children]

AddToSlotRule(parent, name, child, index) ==
  LET a == addSlotComponent(heap, parent, name, child, index) IN
  /\ a.ok /\ ~a.threw
  /\ a.h[parent].hasSlots
  /\ InSeq(name, SlotNames(a.h[parent].slots))
  /\ InsertedAt(MembersOf(heap, parent, name), MembersOf(a.h, parent, name), child, index)
  /\ SelectSeq(a.h[parent].slots, LAMBDA e : e.name # name)
       = SelectSeq(heap[parent].slots, LAMBDA e : e.name # name)
  /\ a.h = [heap EXCEPT ![parent].hasSlots = TRUE, ![parent].slots = a.h[parent].slots]

\* C16: addChild and addToSlot always return true and lengthen the target
\* sequence by one, keeping the order of the entries there; an index within
\* [0, length] is where the child ends up, otherwise it ends up last;
\* addToSlot creates slots and the named slot when absent and leaves every
\* other slot untouched.
C16_AsStated ==
  \A parent \in Parents, child \in Parents, index \in IndexInputs :
    /\ AddChildRule(parent, child, index)
    /\ \A name \in SlotNamesGiven : AddToSlotRule(parent, name, child, index)

\* C16 for slot names that Object.prototype does not define
C16_OwnNames ==
  \A parent \in Parents, child \in Parents, index \in IndexInputs :
    /\ AddChildRule(parent, child, index)
    /\ \A name \in SlotNamesGiven \ ProtoKeys : AddToSlotRule(parent, name, child, index)

\* C17: remove(root, id) returns false and leaves the tree unchanged when no
\* node has the id, and also when the root is the only node that has it.
C17_RemoveFailsSoft ==
  \A id \in Ids :
    Carriers(heap, root, id) \subseteq {root} =>
      removeComponent(heap, root, id) = [ok |-> FALSE, h |-> heap]

\* a tree of three nodes, one of them in a slot, in which the root alone has
\* its id: removing that id, or an id no node has, fails and changes nothing
C17_Witness ==
  /\ Cardinality(Reach(heap, root)) = 3
  /\ \E n \in Reach(heap, root) : heap[n].slots # <<>>
  /\ Carriers(heap, root, heap[root].id) = {root}
  /\ removeComponent(heap, root, heap[root].id) = [ok |-> FALSE, h |-> heap]
  /\ removeComponent(heap, root, AbsentId) = [ok |-> FALSE, h |-> heap]

\* patches a caller may pass: no key, one key, or two keys
PatchInputs ==
  Patches \cup LayoutPatches \cup {NoProps}
    \cup {[NoProps EXCEPT !.gap = "lg", !.alignItems = "end"]}

\* the first node in pre-order that has the id
FirstMatch(h, r, id) ==
  LET order == PreOrder(h, r)
      i == CHOOSE j \in 1..Len(order) :
             /\ h[order[j]].id = id
             /\ \A l \in 1..(j - 1) : h[order[l]].id # id
  IN order[i]

\* the old properties overridden key by key by the patch
Overridden(old, patch) ==
  [k \in PropKeys |-> IF patch[k] # Absent THEN patch[k] ELSE old[k]]

\* C18: updateProperties(root, id, patch) returns false and changes nothing
\* when id is absent; when id is present it returns true and the properties
\* of the first pre-order match become the old ones overridden key by key by
\* patch, while its id, type, children and slots and every other node stay
\* as they were.
C18_UpdateMergesFirstMatch ==
  \A id \in Ids \cup AbsentIds : \A patch \in PatchInputs :
    LET up == updateComponentProps(heap, root, id, patch) IN
    IF Carriers(heap, root, id) = {}
    THEN up = [ok |-> FALSE, h |-> heap]
    ELSE LET m == FirstMatch(heap, root, id) IN
         /\ up.ok
         /\ up.h = [heap EXCEPT ![m].props = Overridden(heap[m].props, patch)]

\* a node below the root that already has a gap is patched with alignItems
\* only: it keeps the gap and gains alignItems; and an id that two nodes have
\* is patched at its first pre-order position only
C18_Witness ==
  /\ \E m \in Reach(heap, root) \ {root} :
       /\ heap[m].props.gap = "md"
       /\ LET patch == [NoProps EXCEPT !.alignItems = "center"]
              up == updateComponentProps(heap, root, heap[m].id, patch)
          IN /\ up.ok
             /\ up.h[m].props.gap = "md"
             /\ up.h[m].props.alignItems = "center"
  /\ \E id \in Ids :
       /\ Cardinality(Carriers(heap, root, id)) = 2
       /\ LET up == updateComponentProps(heap, root, id, [NoProps EXCEPT !.gap = "lg"])
              m == FirstMatch(heap, root, id)
          IN \A n \in Carriers(heap, root, id) :
               (up.h[n].props.gap = "lg") <=> (n = m)

\* how many entries of the list are the id
TimesIn(list, id) == Cardinality({i \in 1..Len(list) : list[i] = id})

\* C19: validateUniqueIds(root) returns isValid = true exactly when every id
\* in the tree occurs once, and its duplicates result contains each id that
\* occurs more than once exactly one time and no id that occurs once.
C19_DuplicatesListedOnce ==
  LET v == validateUniqueIds(heap, root) IN
  /\ v.isValid <=> UniqueTree(heap, root)
  /\ \A id \in Ids \cup AbsentIds :
       TimesIn(v.duplicates, id) = IF Occurs(heap, root, id) > 1 THEN 1 ELSE 0

\* a tree in which three nodes have one id: the id is reported once
C19_Witness ==
  \E id \in TreeIds(heap, root) :
    /\ Occurs(heap, root, id) = 3
    /\ validateUniqueIds(heap, root) = [isValid |-> FALSE, duplicates |-> <<id>>]

\* the node createNode(type) returns when it is called without properties
CreatedBare(t) == createIRComponent(t, NoProps, TRUE, 0)

\* the properties carry key k with value v
HasProp(props, k, v) == k \in DOMAIN props /\ props[k] = v

\* C20 as stated: for a registered type with default property values D,
\* createNode(type) called without properties returns a node whose
\* properties contain every key of D with its default value.
C20_AsStated ==
  \A t \in {d.type : d \in schema} :
    LET D == getDefaultProps(schema, t) IN
    \A k \in DOMAIN D :
      D[k] # Absent => HasProp(CreatedBare(t).props, k, D[k])

\* what the factory does: the node has the properties it was given, none when
\* none were given, whatever the registry holds for the type
C20_PropsAsGiven ==
  \A t \in {d.type : d \in schema} : \A props \in PatchInputs :
    createIRComponent(t, props, TRUE, 0).props = props

\* the type lists a named slot besides the default one
SlotBearing(sc, t) == \E s \in Range(getAllowedSlots(sc, t)) : s # "main"

\* C21 as stated: for every type the registry marks as able to contain
\* children, also one registered at runtime, the node createNode returns has
\* children = [], a slot-bearing type additionally gets slots = {}, and a type
\* that cannot contain children gets neither field.
C21_AsStated ==
  \A t \in {d.type : d \in schema} :
    LET node == CreatedBare(t) IN
    IF canHaveChildren(schema, t)
    THEN /\ node.hasChildren /\ node.children = <<>>
         /\ SlotBearing(schema, t) => (node.hasSlots /\ node.slots = <<>>)
    ELSE ~node.hasChildren /\ ~node.hasSlots

\* what the factory does: the containers follow the type name alone, children
\* for Row, Stack and Button, slots for Button, nothing for any other name,
\* whatever the registry says about the type
C21_ByTypeName ==
  \A t \in {"Row", "Stack", "Button", "Leaf", "Box", "Bogus"} :
    LET node == CreatedBare(t) IN
    /\ node.hasChildren <=> t \in {"Row", "Stack", "Button"}
    /\ node.hasSlots <=> t = "Button"
    /\ node.children = <<>> /\ node.slots = <<>>

\* the copy of n is structurally equal to n
CloneEqual(h, n) ==
  LET c == cloneIRComponent(h, n) IN ToValue(c.h, c.n) = ToValue(h, n)

\* the copy of n is made of new objects only, and making it changes no object
\* that existed before
CloneDistinct(h, n) ==
  LET c == cloneIRComponent(h, n) IN
  /\ Reach(c.h, c.n) \cap (1..Len(h)) = {}
  /\ SubSeq(c.h, 1, Len(h)) = h

\* changing the properties or the children of the copy leaves the original as
\* it was, and changing those of the original leaves the copy as it was
CloneIndependent(h, n, patch) ==
  LET c == cloneIRComponent(h, n)
      withNew == Append(c.h, createIRComponent("Stack", NoProps, TRUE, 0))
      new == Len(withNew)
  IN /\ ToValue(updateComponentProps(c.h, c.n, h[n].id, patch).h, n) = ToValue(h, n)
     /\ ToValue(addChildComponent(withNew, c.n, new, NoIndex).h, n) = ToValue(h, n)
     /\ ToValue(updateComponentProps(c.h, n, h[n].id, patch).h, c.n) = ToValue(c.h, c.n)
     /\ ToValue(addChildComponent(withNew, n, new, NoIndex).h, c.n) = ToValue(c.h, c.n)

\* after a successful move(root, x, d, position) a change of properties or of
\* children made through the reference to the node that findById returned
\* before the call leaves the tree as the move left it
MoveCutsOriginal(h, r, x, d, position, patch) ==
  LET X == findComponentById(h, r, x)
      m == moveComponent(h, r, x, d, position)
      withNew == Append(m.h, createIRComponent("Stack", NoProps, TRUE, 0))
  IN m.ok =>
       /\ ToValue([m.h EXCEPT ![X].props = Overridden(@, patch)], r) = ToValue(m.h, r)
       /\ ToValue(addChildComponent(withNew, X, Len(withNew), NoIndex).h, r) = ToValue(m.h, r)

\* C22 as stated: duplicating a node yields a copy structurally equal to the
\* original that shares no node or properties object with it, so changing one
\* leaves the other unchanged; after move, a change made through a reference
\* to the pre-move original does not affect the tree.
C22_AsStated ==
  /\ \A n \in Reach(heap, root) : \A patch \in PatchInputs :
       /\ CloneEqual(heap, n)
       /\ CloneDistinct(heap, n)
       /\ CloneIndependent(heap, n, patch)
  /\ \A x \in Ids, d \in Ids, position \in Positions, patch \in PatchInputs :
       MoveCutsOriginal(heap, root, x, d, position, patch)

\* C22 amended: the copy is made of new objects only and changing one side
\* leaves the other unchanged; the copy is structurally equal to the original
\* when the property values under the original are plain JSON data; and after
\* a successful move in a tree with unique ids a change made through the
\* pre-move original does not affect the tree.
C22_CloneIndependence ==
  /\ \A n \in Reach(heap, root) : \A patch \in PatchInputs :
       /\ PlainData(heap, n) => CloneEqual(heap, n)
       /\ CloneDistinct(heap, n)
       /\ CloneIndependent(heap, n, patch)
  /\ \A x \in Ids, d \in Ids, position \in Positions, patch \in PatchInputs :
       UniqueTree(heap, root) => MoveCutsOriginal(heap, root, x, d, position, patch)

\* a node with a set property and a child has an equal copy made of new
\* objects, and a node of a tree with unique ids was moved successfully, so
\* that the original is out of the tree
C22_Witness ==
  /\ \E n \in Reach(heap, root) :
       /\ PlainData(heap, n) /\ heap[n].props # NoProps /\ Kids(heap, n) # <<>>
       /\ CloneEqual(heap, n) /\ CloneDistinct(heap, n)
       /\ Cardinality(Reach(cloneIRComponent(heap, n).h, cloneIRComponent(heap, n).n)) >= 2
  /\ UniqueTree(heap, root)
  /\ \E x \in Ids, d \in Ids :
       LET m == moveComponent(heap, root, x, d, NoPosition) IN
       /\ m.ok
       /\ findComponentById(heap, root, x) \notin Reach(m.h, root)

\* the heaps in which the caller has made the component it is about to add:
\* a new node of any type, alone or with one child of its own; the component
\* is the last object of the heap
WithComponent(h) ==
  LET bare(t, s) == Append(h, createIRComponent(t, NoProps, TRUE, s))
      filled(t, s) ==
        LET two == Append(Append(h, createIRComponent("Button", NoProps, TRUE, s)),
                          createIRComponent(t, NoProps, TRUE, s))
        IN addChildComponent(two, Len(two), Len(two) - 1, NoIndex).h
  IN UNION {{bare(t, s), filled(t, s)} : t \in {"Stack", "Button", "Leaf"}, s \in {0, MaxStamp}}

\* C23: VisualBuilder.addComponent(parentId, component) returns false, leaves
\* the tree unchanged and does not invoke onIRChange when no node of the
\* current tree has parentId; when parentId is present it returns true, the
\* component becomes the last default-slot child of that parent (the first
\* node in pre-order that has the id), and onIRChange is invoked exactly once,
\* with the updated tree.
C23_AddComponent ==
  \A parentId \in Ids \cup AbsentIds : \A made \in WithComponent(heap) :
    LET component == Len(made)
        r == addComponent(made, root, parentId, component)
    IN IF Carriers(heap, root, parentId) = {}
       THEN ~r.ok /\ ~r.threw /\ r.h = made /\ r.calls = <<>>
       ELSE LET parent == FirstMatch(heap, root, parentId) IN
            /\ r.ok /\ ~r.threw
            /\ r.h = [made EXCEPT ![parent].hasChildren = TRUE,
                                  ![parent].children = Append(@, component)]
            /\ Last(r.h[parent].children) = component
            /\ r.calls = <<getCurrentIR(r.h, root)>>
            /\ r.calls[1].children = r.h[root].children

\* the builder has notified before, and in its tree of at least three nodes a
\* parent below the root that already has a child takes the component as its
\* last child with one notification, while an absent parent id gives false
C23_Witness ==
  /\ notified > 0
  /\ Cardinality(Reach(heap, root)) >= 3
  /\ \E made \in WithComponent(heap) : \E P \in Reach(heap, root) \ {root} :
       /\ Len(heap[P].children) = 1
       /\ LET r == addComponent(made, root, heap[P].id, Len(made)) IN
            /\ r.ok /\ Len(r.calls) = 1
            /\ r.h[P].children = <<heap[P].children[1], Len(made)>>
       /\ ~addComponent(made, root, AbsentId, Len(made)).ok

\* a successful remove(root, id) took out the node findById(root, id) returned
\* just before the call, with its subtree, and nothing else
RemovesFound(h, r, id) ==
  LET X == findComponentById(h, r, id)
      rm == removeComponent(h, r, id)
  IN rm.ok =>
       /\ X # Null
       /\ Reach(rm.h, r) = Reach(h, r) \ Reach(h, X)
       /\ OutsideUnchanged(h, rm.h, r, X)

\* C24 as stated: for every tree, including trees where the id occurs more
\* than once, a successful remove(root, id) deletes exactly the occurrence
\* that findById(root, id) returned just before the call and no other node.
C24_AsStated == \A id \in Ids : RemovesFound(heap, root, id)

\* C24 amended: for an id that occurs exactly once in the tree, at a node
\* other than the root, remove(root, id) succeeds and deletes exactly the node
\* findById(root, id) returned just before the call and no other node.
C24_RemovesTheOneFound ==
  \A id \in Ids :
    (Occurs(heap, root, id) = 1 /\ id # heap[root].id) =>
      /\ removeComponent(heap, root, id).ok
      /\ RemovesFound(heap, root, id)

\* an id that occurs once, on a slot member, in a tree of three nodes is
\* removed: the node findById returned is gone and the other two stay
C24_Witness ==
  \E id \in TreeIds(heap, root) :
    LET X == findComponentById(heap, root, id) IN
    /\ Occurs(heap, root, id) = 1 /\ id # heap[root].id
    /\ \E n \in Reach(heap, root) : \E k \in 1..Len(heap[n].slots) :
         InSeq(X, heap[n].slots[k].members)
    /\ removeComponent(heap, root, id).ok
    /\ X \notin Reach(removeComponent(heap, root, id).h, root)
    /\ Cardinality(Reach(removeComponent(heap, root, id).h, root)) = 2

\* the tree with the id of component c replaced by the empty string
Blanked(c) == [heap EXCEPT ![c].id = NoId]

\* the trees handed to validate: the tree as built, and the same tree with
\* the id of one component empty
TreesWithBlank == {heap} \cup {Blanked(c) : c \in Reach(heap, root)}

\* the returned errors hold a containment error carrying the id of c
ContainmentErrorFor(h, errors, c) ==
  \E i \in 1..Len(errors) :
    /\ errors[i].componentId = h[c].id
    /\ errors[i].type = "INVALID_NESTING"
    /\ errors[i].rule \in {"cannot-be-contained", "cannot-be-placed"}

\* c was validated recursively: what its own validation finds is returned
ValidatedBelow(h, errors, c) ==
  LET own == validateComponent(h, schema, c).errors
  IN \A i \in 1..Len(own) : InSeq(own[i], errors)

\* n is of a registered type that can have children
ContainerCapable(h, n) ==
  hasComponentType(schema, h[n].type) /\ canHaveChildren(schema, h[n].type)

\* the children of n and the members of the slots n's type allows
CheckedMembers(h, n) ==
  (IF h[n].hasChildren THEN Range(h[n].children) ELSE {})
    \cup UNION {Range(h[n].slots[k].members) :
                  k \in {j \in 1..Len(h[n].slots) :
                           isSlotAllowed(schema, h[n].type, h[n].slots[j].name)}}

\* C25 as stated: for every default-slot child and every slot member of a
\* registered container-capable parent, if canContain(parentType, childType)
\* is false an invalid-nesting error carrying the child's id is recorded, also
\* when the child's id is empty, and the child is still validated recursively.
C25_AsStated ==
  \A h \in TreesWithBlank :
    LET errors == validate(validator, h, schema, root).errors IN
    \A n \in Reach(h, root) :
      ContainerCapable(h, n) =>
        \A c \in Range(Kids(h, n)) :
          /\ ~canContain(schema, h[n].type, h[c].type) => ContainmentErrorFor(h, errors, c)
          /\ ValidatedBelow(h, errors, c)

\* C25 amended: for a parent the walk visits whose type is registered and can
\* have children, every child and every member of a slot the type allows is
\* validated recursively, and when canContain(parentType, childType) is false
\* an invalid-nesting error carrying the child's id is recorded if that id is
\* not empty; for a child with an empty id no containment error is recorded.
C25_NestingTaggedToChild ==
  \A h \in TreesWithBlank :
    LET errors == validate(validator, h, schema, root).errors IN
    \A n \in Visited(h, schema, root) :
      ContainerCapable(h, n) =>
        \A c \in CheckedMembers(h, n) :
          /\ ValidatedBelow(h, errors, c)
          /\ (~canContain(schema, h[n].type, h[c].type) /\ ~Falsy(h[c].id))
               => ContainmentErrorFor(h, errors, c)
          /\ Falsy(h[c].id) => ~ContainmentErrorFor(h, errors, c)

\* validate was called on a tree where a visited container holds a child it
\* cannot contain: the call returned the containment error with the child's
\* id, and for the same tree with that id empty validate returns no
\* containment error for the child, but the errors of the child itself
C25_Witness ==
  /\ result.called
  /\ \E n \in Visited(heap, schema, root) : \E c \in CheckedMembers(heap, n) :
       /\ ContainerCapable(heap, n)
       /\ ~canContain(schema, heap[n].type, heap[c].type)
       /\ ContainmentErrorFor(heap, result.errors, c)
       /\ LET h == Blanked(c)
              errors == validate(validator, h, schema, root).errors
          IN /\ ~ContainmentErrorFor(h, errors, c)
             /\ validateComponent(h, schema, c).errors # <<>>
             /\ ValidatedBelow(h, errors, c)

\* the array index a path segment writes, -1 when it writes none
IndexOfText(text) ==
  IF \E i \in 0..MaxNodes : IndexText(i) = text
  THEN CHOOSE i \in 0..MaxNodes : IndexText(i) = text
  ELSE -1

\* the member of list the segment text points at, Null when there is none
MemberAt(list, text) ==
  IF IndexOfText(text) + 1 \in 1..Len(list) THEN list[IndexOfText(text) + 1] ELSE Null

\* the members of the slot of n called name, empty when n has no such slot
SlotCalled(h, n, name) ==
  IF InSeq(name, SlotNames(h[n].slots))
  THEN h[n].slots[IndexOf(name, SlotNames(h[n].slots))].members ELSE <<>>

\* the node reached by following the segments from n, with the number of
\* steps taken: 'children', index is one step and 'slots', name, index is
\* one step; Null when the segments lead nowhere
RECURSIVE Follow(_, _, _, _)
Follow(h, n, path, steps) ==
  IF n = Null THEN [node |-> Null, steps |-> steps]
  ELSE IF path = <<>> THEN [node |-> n, steps |-> steps]
  ELSE IF path[1] = "children" /\ Len(path) >= 2
  THEN Follow(h, MemberAt(h[n].children, path[2]), SubSeq(path, 3, Len(path)), steps + 1)
  ELSE IF path[1] = "slots" /\ Len(path) >= 3
  THEN Follow(h, MemberAt(SlotCalled(h, n, path[2]), path[3]),
              SubSeq(path, 4, Len(path)), steps + 1)
  ELSE [node |-> Null, steps |-> steps]

\* C26: getPath(root, id) is empty exactly when id is the root's id or is
\* absent; otherwise following its segments from the root reaches the node
\* findById(root, id) returns, and the number of steps equals
\* getDepth(root, id).
C26_PathLeadsToFound ==
  \A id \in Ids \cup AbsentIds :
    LET path == getComponentPath(heap, root, id)
        end == Follow(heap, root, path, 0)
    IN /\ path = <<>> <=> (id = heap[root].id \/ Carriers(heap, root, id) = {})
       /\ path # <<>> =>
            /\ end.node # Null
            /\ end.node = findComponentById(heap, root, id)
            /\ end.steps = getComponentDepth(heap, root, id)

\* the path of a slot member two steps below the root has the segments of
\* both kinds of step and leads to the node findById returns; an absent id
\* has the empty path
C26_Witness ==
  /\ \E id \in Ids :
       LET path == getComponentPath(heap, root, id) IN
       /\ Len(path) = 5
       /\ path[1] = "children" /\ path[3] = "slots"
       /\ Follow(heap, root, path, 0) = [node |-> findComponentById(heap, root, id), steps |-> 2]
  /\ getComponentPath(heap, root, AbsentId) = <<>>

\* x names a non-root node X of a tree with unique ids and p names X itself
\* or a node inside X's subtree
IntoOwnSubtree(h, r, x, p) ==
  /\ UniqueTree(h, r)
  /\ NonRootId(h, r, x)
  /\ p \in TreeIds(h, r)
  /\ NodeOf(h, r, p) \in Reach(h, NodeOf(h, r, x))

\* C27: for a tree with unique ids and a non-root node X, move(root, X.id,
\* P.id) where P is X or a descendant of X returns false, and afterwards X and
\* all its descendants are gone from the tree; the remaining tree is acyclic
\* and every other node is unchanged.
C27_MoveIntoOwnSubtree ==
  \A x \in TreeIds(heap, root), p \in TreeIds(heap, root), position \in Positions :
    IntoOwnSubtree(heap, root, x, p) =>
      LET m == moveComponent(heap, root, x, p, position) IN
      /\ MoveLoses(heap, root, x, p, position)
      /\ ~m.threw
      /\ ~CyclicFrom(m.h, root)
      /\ \A n \in Reach(heap, NodeOf(heap, root, x)) :
           findComponentById(m.h, root, heap[n].id) = Null
      /\ Reach(m.h, root) = Reach(heap, root) \ Reach(heap, NodeOf(heap, root, x))

\* in a tree with unique ids a node below the root is moved into its own
\* child, and is moved onto itself: both calls return false and leave the
\* root alone in the tree
C27_Witness ==
  /\ UniqueTree(heap, root)
  /\ \E x \in TreeIds(heap, root), p \in TreeIds(heap, root) :
       /\ x # p
       /\ IntoOwnSubtree(heap, root, x, p)
       /\ ~moveComponent(heap, root, x, p, NoPosition).ok
       /\ ~moveComponent(heap, root, x, x, NoPosition).ok
       /\ Reach(moveComponent(heap, root, x, p, NoPosition).h, root) = {root}
       /\ Reach(moveComponent(heap, root, x, x, NoPosition).h, root) = {root}

\* the position arguments a caller may pass to move
PositionInputs ==
  Positions \cup {[type |-> "children", slotName |-> "", index |-> 0],
                  [type |-> "slot", slotName |-> "icon", index |-> 1],
                  [type |-> "slot", slotName |-> "constructor", index |-> NoIndex]}

\* the call changed no object that existed before it
Untouched(h, h2) == Len(h2) >= Len(h) /\ SubSeq(h2, 1, Len(h)) = h

\* C28: for a tree with unique ids, move(root, id, newParentId, position)
\* returns false and leaves the tree exactly as it was when id is absent from
\* the tree or when id is the root's id, whatever newParentId and position
\* are.
C28_MoveCannotStart ==
  \A x \in Ids \cup AbsentIds, d \in Ids \cup AbsentIds, position \in PositionInputs :
    (UniqueTree(heap, root) /\ (x \notin TreeIds(heap, root) \/ x = heap[root].id)) =>
      LET m == moveComponent(heap, root, x, d, position) IN
      /\ ~m.ok /\ ~m.threw
      /\ Untouched(heap, m.h)
      /\ ToValue(m.h, root) = ToValue(heap, root)
      /\ m.cloned \notin Reach(m.h, root)

\* a tree of three nodes with unique ids, one in a slot: a move of the root's
\* id to a node of the tree and a move of an absent id both return false and
\* change nothing
C28_Witness ==
  /\ UniqueTree(heap, root)
  /\ Cardinality(Reach(heap, root)) = 3
  /\ \E n \in Reach(heap, root) : heap[n].slots # <<>>
  /\ \E d \in TreeIds(heap, root) \ {heap[root].id} :
       LET m == moveComponent(heap, root, heap[root].id, d, NoPosition) IN
       /\ ~m.ok /\ m.cloned # Null
       /\ ToValue(m.h, root) = ToValue(heap, root)
  /\ moveComponent(heap, root, AbsentId, heap[root].id, NoPosition)
       = [ok |-> FALSE, threw |-> FALSE, h |-> heap, cloned |-> Null]

\* a second validate call on the same validator and the same tree returns
\* what the call before it returned
SecondCallEqual ==
  result.called =>
    LET again == validate(validator, heap, schema, root) IN
    /\ again.errors = result.errors
    /\ again.warnings = result.warnings
    /\ again.isValid = result.isValid

\* a step that runs validate leaves the tree and the schema registry alone
ValidateReadsOnly ==
  (result' # result \/ validator' # validator) => (heap' = heap /\ schema' = schema)

\* C29: a call to validate never changes the tree or the schema registry, and
\* two consecutive validate calls on the same validator with the same
\* unchanged tree return equal errors and warnings: the findings of an
\* earlier call never accumulate into a later one.
C29_ReadOnlyRepeatable == []SecondCallEqual /\ [][ValidateReadsOnly]_vars

\* validate has returned an error and a warning, the validator's fields hold
\* them, and a second call on that validator returns the same two lists
C29_Witness ==
  /\ result.called
  /\ result.errors # <<>> /\ result.warnings # <<>>
  /\ validator = [errors |-> result.errors, warnings |-> result.warnings]
  /\ validate(validator, heap, schema, root).errors = result.errors
  /\ validate(validator, heap, schema, root).warnings = result.warnings

\* both ids name a node, and the dragged one is not the root
DropCase(h, r, draggedId, targetId) ==
  /\ findComponentById(h, r, draggedId) # Null
  /\ findComponentById(h, r, targetId) # Null
  /\ findComponentById(h, r, draggedId) # r

\* the dragged node is the last default-slot child of the target and the set
\* of ids in the tree is what it was
DropReattaches(h, r, draggedId, targetId) ==
  LET D == findComponentById(h, r, draggedId)
      T == findComponentById(h, r, targetId)
      m == handleComponentMove(h, r, draggedId, targetId)
  IN /\ m.h[T].children # <<>>
     /\ Last(m.h[T].children) = D
     /\ TreeIds(m.h, r) = TreeIds(h, r)

\* the dragged subtree is detached from the tree, the detached part contains
\* a cycle, and onIRChange is still invoked
DropDetachesCycle(h, r, draggedId, targetId) ==
  LET D == findComponentById(h, r, draggedId)
      m == handleComponentMove(h, r, draggedId, targetId)
  IN /\ \A n \in Reach(h, D) : h[n].id \notin TreeIds(m.h, r)
     /\ Reach(m.h, r) \cap Reach(h, D) = {}
     /\ CyclicFrom(m.h, D)
     /\ ~m.threw
     /\ Len(m.calls) = 1

\* C30 as stated: handleComponentMove(draggedId, targetId) re-attaches the
\* original node: when both ids are present, dragged is not the root and
\* target is outside dragged's subtree, the dragged node becomes the last
\* default-slot child of target and the set of ids in the tree is unchanged;
\* when target lies inside dragged's subtree, the dragged subtree is detached
\* from the tree, the detached part contains a cycle, and onIRChange is still
\* invoked.
C30_AsStated ==
  \A d \in Ids, t \in Ids :
    DropCase(heap, root, d, t) =>
      IF findComponentById(heap, root, t) \notin Reach(heap, findComponentById(heap, root, d))
      THEN DropReattaches(heap, root, d, t)
      ELSE DropDetachesCycle(heap, root, d, t)

\* C30 amended: the same for a tree with unique ids, where in the first case
\* the dragged node is moved, not duplicated: the tree holds the same objects
\* as before, the dragged one once, and onIRChange is invoked once.
C30_DropReattachesOriginal ==
  \A d \in Ids, t \in Ids :
    (UniqueTree(heap, root) /\ DropCase(heap, root, d, t)) =>
      LET D == findComponentById(heap, root, d)
          T == findComponentById(heap, root, t)
          m == handleComponentMove(heap, root, d, t)
      IN IF T \notin Reach(heap, D)
         THEN /\ DropReattaches(heap, root, d, t)
              /\ Reach(m.h, root) = Reach(heap, root)
              /\ Cardinality(Holders(m.h, D)) = 1
              /\ ~m.threw /\ m.calls = <<getCurrentIR(m.h, root)>>
              /\ UniqueTree(m.h, root)
         ELSE /\ DropDetachesCycle(heap, root, d, t)
              /\ ~CyclicFrom(m.h, root)

\* the builder has notified before; in its tree with unique ids a node with a
\* child is dropped on a node outside its subtree and becomes that node's last
\* child, and is dropped on its own child, which detaches it in a cycle
C30_Witness ==
  /\ notified > 0
  /\ UniqueTree(heap, root)
  /\ \E d \in Ids, t \in Ids, u \in Ids :
       LET D == findComponentById(heap, root, d)
           T == findComponentById(heap, root, t)
           U == findComponentById(heap, root, u)
       IN /\ DropCase(heap, root, d, t) /\ DropCase(heap, root, d, u)
          /\ T # root /\ T \notin Reach(heap, D) /\ ~InSeq(D, heap[T].children)
          /\ U \in Reach(heap, D) \ {D}
          /\ DropReattaches(heap, root, d, t)
          /\ DropDetachesCycle(heap, root, d, u)

====
